---- MODULE Spec2Model ----
(***************************************************************************)
(* Model of EmberApp (lib/broccoli/ember-app.js): the asset-import         *)
(* registry (import, _getAssetPath, _import, addOutputFile, allowImport,   *)
(* _firstOneWins and _lastOneWins), the constructor with the imports of    *)
(* the vendorFiles, the addons' eligibility, transforms and included       *)
(* hooks, and the tree methods up to toTree.                               *)
(*                                                                         *)
(* JavaScript values.  A string is a tuple of one-character strings, so    *)
(* that split, extname, dirname and the regular expressions are computed   *)
(* on characters.  The values undefined and null are the one-element       *)
(* tuples Undefined and Null (no string has a several-character element).  *)
(* An options object is a function whose DOMAIN is the set of keys the     *)
(* caller passed.  Output-file names, transform names, type names and      *)
(* environment names are never taken apart by the code and are TLA+        *)
(* strings.                                                                *)
(***************************************************************************)
EXTENDS Integers, Sequences, FiniteSets, TLC

VARIABLES
    env,                      \* this.env
    scriptOutputFiles,        \* this._scriptOutputFiles : outputFile -> list
    styleOutputFiles,         \* this._styleOutputFiles  : outputFile -> list
    scriptOutputKeys,         \* the keys of this._scriptOutputFiles and of
    styleOutputKeys,          \* this._styleOutputFiles in the order of for...in
    legacyTestFilesToAppend,  \* this.legacyTestFilesToAppend
    vendorTestStaticStyles,   \* this.vendorTestStaticStyles
    otherAssetPaths,          \* this.otherAssetPaths
    customTransformsMap,      \* this._customTransformsMap : name -> config
    nodeModules,              \* this._nodeModules: the resolved packages, in
                              \* the order of the Map
    last,                     \* how the latest import call ended
    project,                  \* what the constructor is given: the project's
                              \* declared addons, options.addons, the registry
                              \* of plugins, the experiments
    projectAddons,            \* this.project.addons
    hooks,                    \* the calls made to functions of addons, in order
    warnings,                 \* the project.ui.writeWarnLine lines, in order
    constructed,              \* "new" before new EmberApp(...), then "ready",
                              \* or "failed" when the constructor threw
    thrown,                   \* the error the constructor threw
    cached,                   \* the _cached... fields : field -> <<>> or <<tree>>
    derived,                  \* field -> how often its derivation was run
    lastTree                  \* the latest call of a tree method and its answer

vars == <<env, scriptOutputFiles, styleOutputFiles, scriptOutputKeys, styleOutputKeys,
          legacyTestFilesToAppend,
          vendorTestStaticStyles, otherAssetPaths, customTransformsMap,
          nodeModules, last, project, projectAddons, hooks, warnings,
          constructed, thrown, cached, derived, lastTree>>

\* the fields import writes, and the others
importVars == <<env, scriptOutputFiles, styleOutputFiles, scriptOutputKeys,
                styleOutputKeys, legacyTestFilesToAppend,
                vendorTestStaticStyles, otherAssetPaths, customTransformsMap,
                nodeModules, last>>
buildVars == <<project, projectAddons, hooks, warnings, constructed, thrown,
               cached, derived, lastTree>>

-----------------------------------------------------------------------------
(* JavaScript values *)

Undefined == <<"undefined">>
Null == <<"null">>

\* !x for a value that is a string, undefined or null
Falsy(x) == x = Undefined \/ x = Null \/ x = <<>>

\* o[k] of an options object, undefined when the key is absent
Get(o, k) == IF k \in DOMAIN o THEN o[k] ELSE Undefined

Max(S) == CHOOSE x \in S : \A y \in S : y <= x
Min(S) == CHOOSE x \in S : \A y \in S : x <= y

\* s.split(a).join(b) for one-character a
SplitJoin(s, a, b) == [i \in 1..Len(s) |-> IF s[i] = a THEN b ELSE s[i]]

\* s.split(a).length for one-character a
SplitLength(s, a) == 1 + Cardinality({i \in 1..Len(s) : s[i] = a})

\* does pat occur in s at position i (1-based)
MatchAt(s, i, pat) ==
    /\ i >= 1
    /\ i + Len(pat) - 1 <= Len(s)
    /\ \A k \in 1..Len(pat) : s[i + k - 1] = pat[k]

\* fileList.indexOf(x), 1-based; 0 stands for -1
IndexOf(fileList, x) ==
    IF \E i \in 1..Len(fileList) : fileList[i] = x
    THEN Min({i \in 1..Len(fileList) : fileList[i] = x})
    ELSE 0

\* fileList.splice(i, 1), i 1-based
Splice1(fileList, i) ==
    [k \in 1..(Len(fileList) - 1) |-> IF k < i THEN fileList[k] ELSE fileList[k + 1]]

-----------------------------------------------------------------------------
(* Node's posix path module, as used by import and _import *)

\* position of the last character that is not a trailing slash, 0 if none
BaseEnd(s) ==
    IF \E i \in 1..Len(s) : s[i] # "/"
    THEN Max({i \in 1..Len(s) : s[i] # "/"})
    ELSE 0

\* position of the first character of the last path segment
BaseStart(s) ==
    LET e == BaseEnd(s)
        slashes == {i \in 1..e : s[i] = "/"}
    IN IF slashes = {} THEN 1 ELSE Max(slashes) + 1

\* path.basename(s)
Basename(s) ==
    IF BaseEnd(s) = 0 THEN <<>> ELSE SubSeq(s, BaseStart(s), BaseEnd(s))

\* path.dirname(s)
Dirname(s) ==
    LET cut == {j \in 2..Len(s) : s[j] = "/" /\ \E k \in (j + 1)..Len(s) : s[k] # "/"}
        hasRoot == Len(s) > 0 /\ s[1] = "/"
    IN IF Len(s) = 0 THEN <<".">>
       ELSE IF cut = {} THEN (IF hasRoot THEN <<"/">> ELSE <<".">>)
       ELSE IF hasRoot /\ Max(cut) = 2 THEN <<"/", "/">>
       ELSE SubSeq(s, 1, Max(cut) - 1)

\* path.extname(s)
Extname(s) ==
    LET e == BaseEnd(s)
        b == BaseStart(s)
        dots == {i \in b..e : s[i] = "."}
        d == Max(dots)
    IN IF e = 0 \/ dots = {} THEN <<>>
       ELSE IF d = b THEN <<>>                                 \* preDotState = 0
       ELSE IF s[b] = "." /\ d = e /\ d = b + 1 THEN <<>>      \* the segment ".."
       ELSE SubSeq(s, d, e)

-----------------------------------------------------------------------------
(* Configuration fixed at construction *)

\* DEFAULT_CONFIG.outputPaths.vendor
VendorJs == "/assets/vendor.js"
VendorCss == "/assets/vendor.css"

\* this.bowerDirectory
BowerDirectory ==
    <<"b", "o", "w", "e", "r", "_", "c", "o", "m", "p", "o", "n", "e", "n", "t", "s">>

NodeModulesSlash ==
    <<"n", "o", "d", "e", "_", "m", "o", "d", "u", "l", "e", "s", "/">>

VendorSlash == <<"v", "e", "n", "d", "o", "r", "/">>

\* the extensions registry.extensionsForType('js') answers
JsExtensions == {<<"j", "s">>}

\* the packages resolve.sync finds; every call resolves from the project
\* root (options.resolveFrom is not passed), so _nodeModules is keyed by name
InstalledPackages == {<<"p">>}

\* isType(assetPath, 'js', { registry })
IsTypeJs(assetPath) ==
    LET ext == Extname(assetPath)
    IN (IF ext = <<>> THEN <<>> ELSE Tail(ext)) \in JsExtensions

-----------------------------------------------------------------------------
(* The conflict policies *)

\* _firstOneWins with the prepend test inverted
FirstOneWinsInverted(fileList, assetPath, options) ==
    LET assetIndex == IndexOf(fileList, assetPath)
    IN IF assetIndex = 0
       THEN [allow |-> TRUE, fileList |-> fileList, logged |-> 0]
       ELSE IF ~options.prepend
       THEN [allow |-> TRUE, fileList |-> Splice1(fileList, assetIndex), logged |-> 1]
       ELSE [allow |-> FALSE, fileList |-> fileList, logged |-> 1]

\* _firstOneWins without the splice
FirstOneWinsNoSplice(fileList, assetPath, options) ==
    LET assetIndex == IndexOf(fileList, assetPath)
    IN IF assetIndex = 0
       THEN [allow |-> TRUE, fileList |-> fileList, logged |-> 0]
       ELSE IF options.prepend
       THEN [allow |-> TRUE, fileList |-> fileList, logged |-> 1]
       ELSE [allow |-> FALSE, fileList |-> fileList, logged |-> 1]

\* _firstOneWins: allow says whether the caller may insert, fileList is the
\* list after a possible eviction, logged counts logger.info lines
_firstOneWins(fileList, assetPath, options) ==
    LET assetIndex == IndexOf(fileList, assetPath)
    IN IF assetIndex = 0
       THEN [allow |-> TRUE, fileList |-> fileList, logged |-> 0]
       ELSE IF options.prepend
       THEN [allow |-> TRUE, fileList |-> Splice1(fileList, assetIndex), logged |-> 1]
       ELSE [allow |-> FALSE, fileList |-> fileList, logged |-> 1]

\* _lastOneWins with the prepend test inverted
LastOneWinsInverted(fileList, assetPath, options) ==
    LET assetIndex == IndexOf(fileList, assetPath)
    IN IF assetIndex = 0
       THEN [allow |-> TRUE, fileList |-> fileList, logged |-> 0]
       ELSE IF ~options.prepend
       THEN [allow |-> FALSE, fileList |-> fileList, logged |-> 1]
       ELSE [allow |-> TRUE, fileList |-> Splice1(fileList, assetIndex), logged |-> 1]

\* _lastOneWins splicing the entry before the one found
LastOneWinsWrongSplice(fileList, assetPath, options) ==
    LET assetIndex == IndexOf(fileList, assetPath)
    IN IF assetIndex = 0
       THEN [allow |-> TRUE, fileList |-> fileList, logged |-> 0]
       ELSE IF options.prepend
       THEN [allow |-> FALSE, fileList |-> fileList, logged |-> 1]
       ELSE [allow |-> TRUE,
             fileList |-> Splice1(fileList, IF assetIndex > 1 THEN assetIndex - 1 ELSE 1),
             logged |-> 1]

\* _lastOneWins with the logger.info in the branch that evicts only
LastOneWinsQuietNoOp(fileList, assetPath, options) ==
    LET assetIndex == IndexOf(fileList, assetPath)
    IN IF assetIndex = 0
       THEN [allow |-> TRUE, fileList |-> fileList, logged |-> 0]
       ELSE IF options.prepend
       THEN [allow |-> FALSE, fileList |-> fileList, logged |-> 0]
       ELSE [allow |-> TRUE, fileList |-> Splice1(fileList, assetIndex), logged |-> 1]

\* _lastOneWins
_lastOneWins(fileList, assetPath, options) ==
    LET assetIndex == IndexOf(fileList, assetPath)
    IN IF assetIndex = 0
       THEN [allow |-> TRUE, fileList |-> fileList, logged |-> 0]
       ELSE IF options.prepend
       THEN [allow |-> FALSE, fileList |-> fileList, logged |-> 1]
       ELSE [allow |-> TRUE, fileList |-> Splice1(fileList, assetIndex), logged |-> 1]

\* allowImport that knows only the firstOneWins strategy
AllowImportFirstOnly(strategy, fileList, assetPath, options) ==
    IF strategy = "firstOneWins" THEN _firstOneWins(fileList, assetPath, options)
    ELSE [allow |-> TRUE, fileList |-> fileList, logged |-> 0]

allowImport(strategy, fileList, assetPath, options) ==
    IF strategy = "firstOneWins" THEN _firstOneWins(fileList, assetPath, options)
    ELSE IF strategy = "lastOneWins" THEN _lastOneWins(fileList, assetPath, options)
    ELSE [allow |-> TRUE, fileList |-> fileList, logged |-> 0]

\* fileList.unshift(assetPath) or fileList.push(assetPath)
Insert(fileList, assetPath, options) ==
    IF options.prepend THEN <<assetPath>> \o fileList ELSE Append(fileList, assetPath)

\* the insertion left out after the policy has evicted the path
InsertAllowedUnlessEvicted(a, assetPath, options) ==
    [fileList |-> IF a.allow /\ a.logged = 0 THEN Insert(a.fileList, assetPath, options)
                  ELSE a.fileList,
     logged |-> a.logged]

\* the caller's insertion after allowImport has answered a
InsertAllowed(a, assetPath, options) ==
    [fileList |-> IF a.allow THEN Insert(a.fileList, assetPath, options) ELSE a.fileList,
     logged |-> a.logged]

\* if (!allowImport(...)) { return; } followed by the unshift or push
AllowAndInsert(strategy, fileList, assetPath, options) ==
    InsertAllowed(allowImport(strategy, fileList, assetPath, options), assetPath, options)

\* a container that keeps the list of outputFile only
PutListAlone(container, outputFile, r) ==
    [threw |-> FALSE,
     outputFile |-> outputFile,
     container |-> [f \in {outputFile} |-> r.fileList],
     logged |-> r.logged]

\* container[outputFile] after the call left r.fileList in it; outputFile
\* is the key that was read and written
PutList(container, outputFile, r) ==
    [threw |-> FALSE,
     outputFile |-> outputFile,
     container |-> [f \in DOMAIN container \cup {outputFile} |->
                      IF f = outputFile THEN r.fileList ELSE container[f]],
     logged |-> r.logged]

\* addOutputFile: container is a map from output file to list
addOutputFile(strategy, container, assetPath, options) ==
    IF options.outputFile = ""
    THEN [threw |-> TRUE, outputFile |-> "", container |-> container, logged |-> 0]
    ELSE PutList(container, options.outputFile,
                 AllowAndInsert(strategy,
                                IF options.outputFile \in DOMAIN container
                                THEN container[options.outputFile] ELSE <<>>,
                                assetPath, options))

-----------------------------------------------------------------------------
(* import and its helpers.  app is the record of the instance's fields. *)

App == [env |-> env,
        scriptOutputFiles |-> scriptOutputFiles,
        styleOutputFiles |-> styleOutputFiles,
        scriptOutputKeys |-> scriptOutputKeys,
        styleOutputKeys |-> styleOutputKeys,
        legacyTestFilesToAppend |-> legacyTestFilesToAppend,
        vendorTestStaticStyles |-> vendorTestStaticStyles,
        otherAssetPaths |-> otherAssetPaths,
        customTransformsMap |-> customTransformsMap,
        nodeModules |-> nodeModules]

\* An asset is [type |-> "string", value |-> s] or [type |-> "object", value |-> m]
\* with m a map from environment names to strings, null or undefined.

\* the pick with asset[this.env] || asset.development for the `in` test
PickAssetPathOr(app, asset) ==
    IF asset.type # "object" THEN asset.value
    ELSE IF ~Falsy(Get(asset.value, app.env)) THEN asset.value[app.env]
    ELSE Get(asset.value, "development")

\* the value _getAssetPath reads before it normalises it
PickAssetPath(app, asset) ==
    IF asset.type # "object" THEN asset.value
    ELSE IF app.env \in DOMAIN asset.value THEN asset.value[app.env]
    ELSE Get(asset.value, "development")

\* /[*,]/.test(assetPath)
HasGlob(assetPath) == \E i \in 1..Len(assetPath) : assetPath[i] \in {"*", ","}

\* _getAssetPath testing /[*]/ only
GetAssetPathStarOnly(app, asset) ==
    LET picked == PickAssetPath(app, asset)
        assetPath == SplitJoin(picked, "\\", "/")
    IN IF Falsy(picked)
       THEN [threw |-> FALSE, assetPath |-> Undefined, globPath |-> Undefined,
             warned |-> FALSE]
       ELSE IF \E i \in 1..Len(assetPath) : assetPath[i] = "*"
       THEN [threw |-> TRUE, assetPath |-> Undefined, globPath |-> assetPath,
             warned |-> SplitLength(assetPath, "/") < 2]
       ELSE [threw |-> FALSE, assetPath |-> assetPath, globPath |-> Undefined,
             warned |-> SplitLength(assetPath, "/") < 2]

\* _getAssetPath: threw (with the path the message quotes), or assetPath
\* (undefined when the import is skipped); warned is the console.log for a
\* file in the root of vendor/
_getAssetPath(app, asset) ==
    LET picked == PickAssetPath(app, asset)
        assetPath == SplitJoin(picked, "\\", "/")
    IN IF Falsy(picked)
       THEN [threw |-> FALSE, assetPath |-> Undefined, globPath |-> Undefined,
             warned |-> FALSE]
       ELSE IF HasGlob(assetPath)
       THEN [threw |-> TRUE, assetPath |-> Undefined, globPath |-> assetPath,
             warned |-> SplitLength(assetPath, "/") < 2]
       ELSE [threw |-> FALSE, assetPath |-> assetPath, globPath |-> Undefined,
             warned |-> SplitLength(assetPath, "/") < 2]

\* defaultsDeep(options || {}, { type: 'vendor', prepend: false })
WithDefaults(options) ==
    [k \in DOMAIN options \cup {"type", "prepend"} |->
        IF k \in DOMAIN options THEN options[k]
        ELSE IF k = "type" THEN "vendor" ELSE FALSE]

\* match[1] of assetPath.match(/^node_modules\/((@[^/]+\/)?[^/]+)\//),
\* undefined when there is no match
NodeModuleName(assetPath) ==
    LET n == Len(NodeModulesSlash)
        rest == SubSeq(assetPath, n + 1, Len(assetPath))
        slashes == {i \in 1..Len(rest) : rest[i] = "/"}
        s1 == Min(slashes)
        later == {i \in slashes : i > s1}
        s2 == Min(later)
    IN IF ~MatchAt(assetPath, 1, NodeModulesSlash) \/ slashes = {} \/ s1 = 1
       THEN Undefined
       ELSE IF rest[1] = "@" /\ s1 > 2 /\ later # {} /\ s2 > s1 + 1
       THEN SubSeq(rest, 1, s2 - 1)
       ELSE SubSeq(rest, 1, s1 - 1)

\* directory.replace(new RegExp(`^vendor/|${this.bowerDirectory}|node_modules/`), '')
Subdirectory(directory) ==
    LET alts(i) == (IF i = 1 /\ MatchAt(directory, 1, VendorSlash) THEN <<VendorSlash>> ELSE <<>>)
                   \o (IF MatchAt(directory, i, BowerDirectory) THEN <<BowerDirectory>> ELSE <<>>)
                   \o (IF MatchAt(directory, i, NodeModulesSlash) THEN <<NodeModulesSlash>> ELSE <<>>)
        hits == {i \in 1..Len(directory) : alts(i) # <<>>}
        at == Min(hits)
        pat == alts(at)[1]
    IN IF hits = {} THEN directory
       ELSE SubSeq(directory, 1, at - 1) \o SubSeq(directory, at + Len(pat), Len(directory))

\* customTransforms.processOptions(assetPath, entry, customTransforms.options):
\* the callback of a transform registered as a function returns its options;
\* the callback of an addon is recorded as the list of the calls made to it
\* (calling a processOptions that is undefined is the TypeError of UsingForEach)
ProcessOptions(config, assetPath, entry) ==
    IF config.processOptions = "identity" THEN config.options
    ELSE Append(config.options, <<assetPath, entry>>)

\* new Error(...): the message, and the values the code puts into it
Err(message, names) == [message |-> message, names |-> names]
NoError == Err("", <<>>)

\* Array.from(this._customTransformsMap.keys())
AvailableTransformNames(map) == DOMAIN map

\* the using loop skipping the names the registry does not hold
RECURSIVE UsingForEachSkipUnknown(_, _, _)
UsingForEachSkipUnknown(map, assetPath, using) ==
    IF using = <<>> THEN [map |-> map, error |-> NoError]
    ELSE LET entry == Head(using)
             transformName == entry.transformation
         IN IF "transformation" \notin DOMAIN entry \/ entry.transformation = ""
            THEN [map |-> map, error |-> Err("using entry without transformation", <<assetPath>>)]
            ELSE IF transformName \notin DOMAIN map
            THEN UsingForEachSkipUnknown(map, assetPath, Tail(using))
            ELSE UsingForEachSkipUnknown(
                   [map EXCEPT ![transformName] =
                      [@ EXCEPT !.options = ProcessOptions(map[transformName], assetPath, entry),
                                !.files = Append(@, assetPath)]],
                   assetPath, Tail(using))

\* the using loop without customTransforms.files.push(assetPath)
RECURSIVE UsingForEachNoPush(_, _, _)
UsingForEachNoPush(map, assetPath, using) ==
    IF using = <<>> THEN [map |-> map, error |-> NoError]
    ELSE LET entry == Head(using)
             transformName == entry.transformation
         IN IF "transformation" \notin DOMAIN entry \/ entry.transformation = ""
            THEN [map |-> map, error |-> Err("using entry without transformation", <<assetPath>>)]
            ELSE IF transformName \notin DOMAIN map
            THEN [map |-> map,
                  error |-> Err("unknown transformation",
                                <<assetPath, transformName, AvailableTransformNames(map)>>)]
            ELSE IF map[transformName].processOptions = "undefined"
            THEN [map |-> map, error |-> Err("processOptions is not a function", <<>>)]
            ELSE UsingForEachNoPush(
                   [map EXCEPT ![transformName] =
                      [@ EXCEPT !.options = ProcessOptions(map[transformName], assetPath, entry)]],
                   assetPath, Tail(using))

\* options.using.forEach(...): map is the registry after the entries before
\* the first one that throws, error is that throw (NoError when none does)
RECURSIVE UsingForEach(_, _, _)
UsingForEach(map, assetPath, using) ==
    IF using = <<>> THEN [map |-> map, error |-> NoError]
    ELSE LET entry == Head(using)
             transformName == entry.transformation
         IN IF "transformation" \notin DOMAIN entry \/ entry.transformation = ""
            THEN [map |-> map, error |-> Err("using entry without transformation", <<assetPath>>)]
            ELSE IF transformName \notin DOMAIN map
            THEN [map |-> map,
                  error |-> Err("unknown transformation",
                                <<assetPath, transformName, AvailableTransformNames(map)>>)]
            ELSE IF map[transformName].processOptions = "undefined"
            THEN [map |-> map, error |-> Err("processOptions is not a function", <<>>)]
            ELSE UsingForEach(
                   [map EXCEPT ![transformName] =
                      [@ EXCEPT !.options = ProcessOptions(map[transformName], assetPath, entry),
                                !.files = Append(@, assetPath)]],
                   assetPath, Tail(using))

\* what a call returns to the model: the instance after it, how it ended
\* ("ok", "skipped" or "error"), the message thrown, the logger.info lines
Ended(app, outcome, error, logged) ==
    [app |-> app, outcome |-> outcome, error |-> error, logged |-> logged]

\* options.outputFile = options.outputFile || dflt
WithOutputFile(options, dflt) ==
    [k \in DOMAIN options \cup {"outputFile"} |->
        IF k # "outputFile" THEN options[k]
        ELSE IF "outputFile" \in DOMAIN options /\ options.outputFile # ""
        THEN options.outputFile ELSE dflt]

\* the keys of an object, or of a Map, after key was assigned to: a key it
\* had keeps its place, a new key comes last (the keys of the model are no
\* array indices, which for...in would list first)
KeysWith(keys, key) == IF IndexOf(keys, key) # 0 THEN keys ELSE Append(keys, key)

\* _import, scripts: the type branches, u being what the using loop left
VendorScript(app, js) ==
    IF js.threw THEN Ended(app, "error", Err("outputFile is not specified", <<>>), 0)
    ELSE Ended([app EXCEPT !.scriptOutputFiles = js.container,
                           !.scriptOutputKeys = KeysWith(@, js.outputFile)],
               "ok", NoError, js.logged)

TestScript(app, r) ==
    Ended([app EXCEPT !.legacyTestFilesToAppend = r.fileList], "ok", NoError, r.logged)

\* the script branches with a final else for "test", as the style branches have
RouteScriptElseTest(app, assetPath, options) ==
    IF options.type = "vendor"
    THEN VendorScript(app, addOutputFile("firstOneWins", app.scriptOutputFiles, assetPath,
                                         WithOutputFile(options, VendorJs)))
    ELSE TestScript(app, AllowAndInsert("firstOneWins", app.legacyTestFilesToAppend,
                                        assetPath, options))

RouteScript(app, assetPath, options) ==
    IF options.type = "vendor"
    THEN VendorScript(app, addOutputFile("firstOneWins", app.scriptOutputFiles, assetPath,
                                         WithOutputFile(options, VendorJs)))
    ELSE IF options.type = "test"
    THEN TestScript(app, AllowAndInsert("firstOneWins", app.legacyTestFilesToAppend,
                                        assetPath, options))
    ELSE Ended(app, "error", Err("type is neither vendor nor test", <<Basename(assetPath)>>), 0)

ScriptAfterUsing(app, u, assetPath, options) ==
    IF u.error.message # ""
    THEN Ended([app EXCEPT !.customTransformsMap = u.map], "error", u.error, 0)
    ELSE RouteScript([app EXCEPT !.customTransformsMap = u.map], assetPath, options)

ImportScriptAsset(app, assetPath, options) ==
    IF "using" \notin DOMAIN options
    THEN RouteScript(app, assetPath, options)
    ELSE IF ~options.using.isArray
    THEN Ended(app, "error", Err("using is not an array", <<>>), 0)
    ELSE ScriptAfterUsing(app,
                          UsingForEach(app.customTransformsMap, assetPath, options.using.items),
                          assetPath, options)

\* _import, styles
VendorStyle(app, css) ==
    IF css.threw THEN Ended(app, "error", Err("outputFile is not specified", <<>>), 0)
    ELSE Ended([app EXCEPT !.styleOutputFiles = css.container,
                           !.styleOutputKeys = KeysWith(@, css.outputFile)],
               "ok", NoError, css.logged)

TestStyle(app, r) ==
    Ended([app EXCEPT !.vendorTestStaticStyles = r.fileList], "ok", NoError, r.logged)

\* the style branches with every vendor style put into the configured path
ImportStyleAssetIntoVendorCss(app, assetPath, options) ==
    IF options.type = "vendor"
    THEN VendorStyle(app, addOutputFile("lastOneWins", app.styleOutputFiles, assetPath,
                                        [WithOutputFile(options, VendorCss)
                                            EXCEPT !.outputFile = VendorCss]))
    ELSE TestStyle(app, AllowAndInsert("lastOneWins", app.vendorTestStaticStyles,
                                       assetPath, options))

ImportStyleAsset(app, assetPath, options) ==
    IF options.type = "vendor"
    THEN VendorStyle(app, addOutputFile("lastOneWins", app.styleOutputFiles, assetPath,
                                        WithOutputFile(options, VendorCss)))
    ELSE TestStyle(app, AllowAndInsert("lastOneWins", app.vendorTestStaticStyles,
                                       assetPath, options))

\* _import, other assets
DestDir(destDir, subdirectory) ==
    IF destDir = <<>> THEN <<"/">>
    ELSE IF Falsy(destDir) THEN subdirectory ELSE destDir

ImportOtherAsset(app, assetPath, options, directory, subdirectory) ==
    Ended([app EXCEPT !.otherAssetPaths =
              Append(@, [src |-> directory, file |-> Basename(assetPath),
                         dest |-> DestDir(Get(options, "destDir"), subdirectory)])],
          "ok", NoError, 0)

\* _import
_import(app, assetPath, options, directory, subdirectory, extension) ==
    IF IsTypeJs(assetPath) THEN ImportScriptAsset(app, assetPath, options)
    ELSE IF extension = <<".", "c", "s", "s">> THEN ImportStyleAsset(app, assetPath, options)
    ELSE ImportOtherAsset(app, assetPath, options, directory, subdirectory)

\* import without the test of the extension
ImportResolvedAnyExtension(app, assetPath, options, name, directory, extension) ==
    IF name # Undefined /\ name \notin InstalledPackages
    THEN Ended(app, "error", Err("cannot find module", <<name>>), 0)
    ELSE _import([app EXCEPT !.nodeModules = IF name = Undefined THEN @ ELSE KeysWith(@, name)],
                 assetPath, options, directory, Subdirectory(directory), extension)

\* import, from the node_modules match on: name is match[1] or undefined
ImportResolved(app, assetPath, options, name, directory, extension) ==
    IF name # Undefined /\ name \notin InstalledPackages
    THEN Ended(app, "error", Err("cannot find module", <<name>>), 0)
    ELSE IF extension = <<>>
    THEN Ended([app EXCEPT !.nodeModules = IF name = Undefined THEN @ ELSE KeysWith(@, name)],
               "error", Err("no extension", <<>>), 0)
    ELSE _import([app EXCEPT !.nodeModules = IF name = Undefined THEN @ ELSE KeysWith(@, name)],
                 assetPath, options, directory, Subdirectory(directory), extension)

\* import, after _getAssetPath has answered g
ImportPath(app, g, options) ==
    IF g.threw THEN Ended(app, "error", Err("glob pattern", <<g.globPath>>), 0)
    ELSE IF Falsy(g.assetPath) THEN Ended(app, "skipped", NoError, 0)
    ELSE ImportResolved(app, g.assetPath, WithDefaults(options), NodeModuleName(g.assetPath),
                        Dirname(g.assetPath), Extname(g.assetPath))

\* import
import(app, asset, options) == ImportPath(app, _getAssetPath(app, asset), options)

\* populateLegacyFiles: for (name in this.vendorFiles), from the entry
\* Head(vendorFiles) on; an entry is null or the arguments of an import (for
\* an entry that is no array, the asset alone: options is the empty object
\* that import makes of undefined).  error is what the first import that
\* throws has thrown, which ends the loop
RECURSIVE populateLegacyFiles(_, _)
populateLegacyFiles(app, vendorFiles) ==
    IF vendorFiles = <<>> THEN [app |-> app, error |-> NoError]
    ELSE LET args == Head(vendorFiles)
             Imported(r) ==
                 IF r.outcome = "error" THEN [app |-> r.app, error |-> r.error]
                 ELSE populateLegacyFiles(r.app, Tail(vendorFiles))
         IN IF args.isNull THEN populateLegacyFiles(app, Tail(vendorFiles))
            ELSE Imported(import(app, args.asset, args.options))

-----------------------------------------------------------------------------
(* Addons and the constructor.  An addon is a record: name; isEnabled,       *)
(* "absent" or the answer of the predicate, "true" or "false"; included,     *)
(* whether it defines the hook; importTransforms, whether it defines the     *)
(* hook and what the hook returns; its tree hooks (see the trees below).     *)
(* What importTransforms returns is undefined or a map, given by its keys in *)
(* Object.keys order and its entries; an entry is described by its typeof,   *)
(* whether it is null, and whether it has transform and processOptions.      *)

\* one call of a function of an addon
Hook(hook, addon, type) == [hook |-> hook, addon |-> addon, type |-> type]

\* !!blacklist, !!whitelist: undefined and null are falsy, an array is not
Listed(list) == list # Undefined /\ list # Null

\* the addon.isEnabled() that _addonEnabled makes when the addon has one
IsEnabledCalls(addon) ==
    IF addon.isEnabled = "absent" THEN <<>> ELSE <<Hook("isEnabled", addon.name, "")>>

_addonEnabled(addon) == addon.isEnabled = "absent" \/ addon.isEnabled = "true"

_addonDisabledByBlacklist(addonsOptions, addon) ==
    Listed(addonsOptions.blacklist) /\ IndexOf(addonsOptions.blacklist, addon.name) # 0

_addonDisabledByWhitelist(addonsOptions, addon) ==
    Listed(addonsOptions.whitelist) /\ IndexOf(addonsOptions.whitelist, addon.name) = 0

\* shouldIncludeAddon without the whitelist
ShouldIncludeAddonNoWhitelist(addonsOptions, addon) ==
    IF ~_addonEnabled(addon) THEN FALSE
    ELSE ~_addonDisabledByBlacklist(addonsOptions, addon)

shouldIncludeAddon(addonsOptions, addon) ==
    IF ~_addonEnabled(addon) THEN FALSE
    ELSE /\ ~_addonDisabledByBlacklist(addonsOptions, addon)
         /\ ~_addonDisabledByWhitelist(addonsOptions, addon)

\* what the constructor has done so far: the registry, the calls to addons,
\* the warnings, this.project.addons, and the error thrown (NoError if none)
Built(map, calls, warned, addons, error) ==
    [map |-> map, hooks |-> calls, warnings |-> warned, addons |-> addons, error |-> error]

Threw(b, error) == [b EXCEPT !.error = error]

\* transformConfig for an entry that is an object or a function; the
\* callback is named by the addon and the key it was read from
TransformConfig(addon, transformName, entry) ==
    [files |-> <<>>, options |-> <<>>,
     callback |-> IF entry.typeof = "function" \/ entry.transform
                  THEN <<addon.name, transformName>> ELSE Undefined,
     processOptions |-> IF entry.typeof = "function" THEN "identity"
                        ELSE IF entry.processOptions THEN "addon" ELSE "undefined"]

\* the registration that keeps the transform the map already has
SetTransformKeepFirst(b, addon, transformName, transformConfig) ==
    [b EXCEPT !.warnings = IF transformName \in DOMAIN b.map
                           THEN Append(@, <<addon.name, transformName>>) ELSE @,
              !.map = [n \in DOMAIN b.map \cup {transformName} |->
                          IF n \in DOMAIN b.map THEN b.map[n] ELSE transformConfig]]

\* this._customTransformsMap.set(transformName, transformConfig), after the
\* warning when the map has the name
SetTransform(b, addon, transformName, transformConfig) ==
    [b EXCEPT !.warnings = IF transformName \in DOMAIN b.map
                           THEN Append(@, <<addon.name, transformName>>) ELSE @,
              !.map = [n \in DOMAIN b.map \cup {transformName} |->
                          IF n = transformName THEN transformConfig ELSE b.map[n]]]

\* Object.keys(transforms).forEach(...), from the key Head(keys) on
RECURSIVE RegisterTransforms(_, _, _, _)
RegisterTransforms(b, addon, entries, keys) ==
    IF keys = <<>> THEN b
    ELSE LET transformName == Head(keys)
             entry == entries[transformName]
         IN IF entry.typeof = "object" /\ entry.isNull
            THEN Threw(b, Err("TypeError: transform of null", <<addon.name, transformName>>))
            ELSE IF entry.typeof \notin {"object", "function"}
            THEN Threw(b, Err("callback function not returned correctly",
                              <<addon.name, transformName>>))
            ELSE RegisterTransforms(
                   SetTransform(b, addon, transformName,
                                TransformConfig(addon, transformName, entry)),
                   addon, entries, Tail(keys))

\* the body of the forEach of _importAddonTransforms for an addon that
\* shouldIncludeAddon accepts and that has importTransforms
CallImportTransforms(b, addon) ==
    IF addon.importTransforms.returns.kind # "map"
    THEN Threw(b, Err("transform map not returned", <<addon.name>>))
    ELSE RegisterTransforms(b, addon, addon.importTransforms.returns.entries,
                            addon.importTransforms.returns.keys)

\* _importAddonTransforms: this.project.addons.forEach(...), from the addon
\* Head(addons) on
RECURSIVE _importAddonTransforms(_, _, _)
_importAddonTransforms(b, addonsOptions, addons) ==
    IF addons = <<>> \/ b.error.message # "" THEN b
    ELSE LET addon == Head(addons)
             asked == [b EXCEPT !.hooks = @ \o IsEnabledCalls(addon)]
         IN IF ~shouldIncludeAddon(addonsOptions, addon) \/ ~addon.importTransforms.defined
            THEN _importAddonTransforms(asked, addonsOptions, Tail(addons))
            ELSE _importAddonTransforms(
                   CallImportTransforms(
                      [asked EXCEPT !.hooks = Append(@, Hook("importTransforms", addon.name, ""))],
                      addon),
                   addonsOptions, Tail(addons))

\* the first name of list that no addon of the project has, <<>> if none:
\* the forEach over the blacklist or the whitelist throws at it
NotFound(list, addonNames) ==
    LET unknown == {i \in 1..Len(list) : list[i] \notin addonNames}
    IN IF ~Listed(list) \/ unknown = {} THEN <<>> ELSE <<list[Min(unknown)]>>

\* this.project.addons.filter(...) of _notifyAddonIncluded, from the addon
\* Head(addons) on; b.addons collects the addons kept
RECURSIVE FilterIncluded(_, _, _)
FilterIncluded(b, addonsOptions, addons) ==
    IF addons = <<>> THEN b
    ELSE LET addon == Head(addons)
             asked == [b EXCEPT !.hooks = @ \o IsEnabledCalls(addon)]
         IN IF ~shouldIncludeAddon(addonsOptions, addon)
            THEN FilterIncluded(asked, addonsOptions, Tail(addons))
            ELSE FilterIncluded(
                   [asked EXCEPT !.hooks = IF addon.included
                                           THEN Append(@, Hook("included", addon.name, ""))
                                           ELSE @,
                                 !.addons = Append(@, addon)],
                   addonsOptions, Tail(addons))

\* _notifyAddonIncluded
_notifyAddonIncluded(b, addonsOptions, addons) ==
    LET addonNames == {addons[i].name : i \in 1..Len(addons)}
    IN IF NotFound(addonsOptions.blacklist, addonNames) # <<>>
       THEN Threw(b, Err("blacklist addon not found",
                         NotFound(addonsOptions.blacklist, addonNames)))
       ELSE IF NotFound(addonsOptions.whitelist, addonNames) # <<>>
       THEN Threw(b, Err("whitelist addon not found",
                         NotFound(addonsOptions.whitelist, addonNames)))
       ELSE FilterIncluded([b EXCEPT !.addons = <<>>], addonsOptions, addons)

\* the constructor after _notifyAddonIncluded: the loader.js check
CheckLoader(b, c) ==
    IF b.error.message # "" THEN b
    ELSE IF ~c.loaderInstalled /\ ~c.ignoreMissingLoader
    THEN Threw(b, Err("loader.js addon is missing", <<>>))
    ELSE b

\* the constructor after _importAddonTransforms
NotifyAndCheck(b, c) ==
    IF b.error.message # "" THEN b
    ELSE CheckLoader(_notifyAddonIncluded(b, c.addons, b.addons), c)

\* the constructor from this.initializeAddons() on, which is after
\* populateLegacyFiles; c is the configuration
EmberApp(c) ==
    NotifyAndCheck(
        _importAddonTransforms(Built([n \in {} |-> 0], <<>>, <<>>, c.declared, NoError),
                               c.addons, c.declared),
        c)

-----------------------------------------------------------------------------
(* Trees.  A tree is the description of a broccoli node: the operation that  *)
(* made it, the addon or plugin it came from, its type or annotation, its    *)
(* destDir, whether a merge overwrites, and its input trees; made tells the  *)
(* objects of a memoized method apart: it is the run of the derivation that  *)
(* made the object (0 for the objects no memoized method returns).  The      *)
(* files of the trees of the application and of the addons are part of the   *)
(* configuration.  A path is a tuple of segments.                            *)

Tree(op, of, note, inputs) ==
    [op |-> op, of |-> of, note |-> note, dest |-> <<>>, overwrite |-> FALSE,
     made |-> 0, inputs |-> inputs]

\* null, or undefined, where a tree is expected
NullTree == Tree("null", "", "", <<>>)

\* list.filter(Boolean)
FilterBoolean(trees) == SelectSeq(trees, LAMBDA t : t.op # "null")

\* mergeTrees(inputs, { overwrite, annotation })
MergeTrees(inputs, overwrite, annotation) ==
    [Tree("mergeTrees", "", annotation, inputs) EXCEPT !.overwrite = overwrite]

\* new Funnel(input, { srcDir: '/', destDir, annotation })
Funnel(input, destDir, annotation) ==
    [Tree("Funnel", "", annotation, <<input>>) EXCEPT !.dest = destDir]

\* new Funnel(input, options) with options that select files (files,
\* include, exclude)
FunnelSelect(input, destDir, annotation) ==
    [Tree("Funnel select", "", annotation, <<input>>) EXCEPT !.dest = destDir]

\* this.name
AppName == "my-app"

\* this.trees[name]: the tree _initOptions found, or null
AppTree(c, name) == IF name \in c.trees THEN Tree("trees", "", name, <<>>) ELSE NullTree

\* the fields that memoize a tree
CacheFields ==
    {"_cachedTemplateTree", "_cachedNodeModuleTrees", "_cachedAddonTree",
     "_cachedAddonTestSupportTree", "_cachedAddonSrcTree", "_cachedExternalTree",
     "_cachedTestAppConfigTree", "_cachedStylesTree"}

\* the instance as the tree methods see it: app holds the fields they only
\* read, and the record below the ones they write, with the error thrown
\* (once an error is thrown the methods under way do nothing more)
Trees(calls, cache, runs, error) ==
    [hooks |-> calls, cached |-> cache, derived |-> runs, error |-> error]

\* what a method returns: the instance, and a tree or a list of trees
Ret(st, tree) == [st |-> st, tree |-> tree, trees |-> <<>>]
RetList(st, trees) == [st |-> st, tree |-> NullTree, trees |-> trees]

Failed(st) == st.error.message # ""

\* if (!this[field]) { ... }: the derivation is entered
Enter(st, field) == [st EXCEPT !.derived[field] = @ + 1]

\* the object the current run of the derivation of field makes
Stamp(st, field, tree) == [tree EXCEPT !.made = st.derived[field]]

\* this[field] = tree; return this[field]
Store(st, field, tree) ==
    IF Failed(st) THEN Ret(st, NullTree)
    ELSE Ret([st EXCEPT !.cached[field] = <<Stamp(st, field, tree)>>],
             Stamp(st, field, tree))

\* return this[field], for a field that is set
Cached(st, field) == Ret(st, st.cached[field][1])

\* _addonTreesFor with the addon's included hook run again
RECURSIVE AddonTreesForCallingIncluded(_, _, _, _)
AddonTreesForCallingIncluded(st, addons, type, sum) ==
    IF addons = <<>> THEN RetList(st, sum)
    ELSE LET addon == Head(addons)
         IN IF ~addon.treeFor.defined
            THEN AddonTreesForCallingIncluded(st, Tail(addons), type, sum)
            ELSE AddonTreesForCallingIncluded(
                   [st EXCEPT !.hooks = @ \o <<Hook("included", addon.name, ""),
                                               Hook("treeFor", addon.name, type)>>],
                   Tail(addons), type,
                   IF type \in DOMAIN addon.treeFor.trees /\ ~addon.treeFor.trees[type].isEmpty
                   THEN Append(sum, Tree("treeFor", addon.name, type, <<>>)) ELSE sum)

\* _addonTreesFor in the reverse order of the addons
RECURSIVE AddonTreesForReversed(_, _, _, _)
AddonTreesForReversed(st, addons, type, sum) ==
    IF addons = <<>> THEN RetList(st, sum)
    ELSE LET addon == Head(addons)
         IN IF ~addon.treeFor.defined
            THEN AddonTreesForReversed(st, Tail(addons), type, sum)
            ELSE AddonTreesForReversed(
                   [st EXCEPT !.hooks = Append(@, Hook("treeFor", addon.name, type))],
                   Tail(addons), type,
                   IF type \in DOMAIN addon.treeFor.trees /\ ~addon.treeFor.trees[type].isEmpty
                   THEN <<Tree("treeFor", addon.name, type, <<>>)>> \o sum ELSE sum)

\* _addonTreesFor(type): this.project.addons.reduce(...), from the addon
\* Head(addons) on, sum being the trees collected; an addon's treeFor
\* answers the tree the configuration gives it for the type, or null
RECURSIVE _addonTreesFor(_, _, _, _)
_addonTreesFor(st, addons, type, sum) ==
    IF addons = <<>> THEN RetList(st, sum)
    ELSE LET addon == Head(addons)
         IN IF ~addon.treeFor.defined
            THEN _addonTreesFor(st, Tail(addons), type, sum)
            ELSE _addonTreesFor(
                   [st EXCEPT !.hooks = Append(@, Hook("treeFor", addon.name, type))],
                   Tail(addons), type,
                   IF type \in DOMAIN addon.treeFor.trees /\ ~addon.treeFor.trees[type].isEmpty
                   THEN Append(sum, Tree("treeFor", addon.name, type, <<>>)) ELSE sum)

\* addonTreesFor(type)
addonTreesFor(app, st, type) == _addonTreesFor(st, app.addons, type, <<>>)

\* addonProcessTree(this.project, hook, type, tree): every addon that has
\* the hook is handed the tree the addon before it returned
RECURSIVE addonProcessTree(_, _, _, _, _)
addonProcessTree(st, addons, hook, type, tree) ==
    IF addons = <<>> THEN Ret(st, tree)
    ELSE LET addon == Head(addons)
         IN IF ~addon[hook]
            THEN addonProcessTree(st, Tail(addons), hook, type, tree)
            ELSE addonProcessTree(
                   [st EXCEPT !.hooks = Append(@, Hook(hook, addon.name, type))],
                   Tail(addons), hook, type, Tree(hook, addon.name, type, <<tree>>))

addonPostprocessTree(app, st, type, tree) ==
    addonProcessTree(st, app.addons, "postprocessTree", type, tree)

addonPreprocessTree(app, st, type, tree) ==
    addonProcessTree(st, app.addons, "preprocessTree", type, tree)

\* lintAddonsByType(addons, type, tree): the trees the lintTree hooks return
RECURSIVE lintAddonsByType(_, _, _, _, _)
lintAddonsByType(st, addons, type, tree, sum) ==
    IF addons = <<>> THEN RetList(st, sum)
    ELSE LET addon == Head(addons)
         IN IF ~addon.lintTree
            THEN lintAddonsByType(st, Tail(addons), type, tree, sum)
            ELSE lintAddonsByType(
                   [st EXCEPT !.hooks = Append(@, Hook("lintTree", addon.name, type))],
                   Tail(addons), type, tree,
                   Append(sum, Tree("lintTree", addon.name, type, <<tree>>)))

\* addonLintTree(type, tree)
addonLintTree(app, st, type, tree) ==
    LET Merged(r) == Ret(r.st, MergeTrees(r.trees, TRUE, "TreeMerger (lint)"))
    IN Merged(lintAddonsByType(st, app.addons, type, tree, <<>>))

\* a tree a method of the DefaultPackager returns
Packaged(method, inputs) == Tree(method, "", "", inputs)

\* _getDefaultPluginForType answering the first default plugin
GetDefaultPluginFirst(registry, type) ==
    LET plugins == IF type \in DOMAIN registry THEN registry[type] ELSE <<>>
        defaultsForType == SelectSeq(plugins, LAMBDA plugin : plugin.isDefaultForType)
    IN [error |-> NoError,
        plugin |-> IF defaultsForType = <<>> THEN <<>> ELSE <<defaultsForType[1]>>]

\* _getDefaultPluginForType: registry[type] is this.registry.load(type);
\* plugin is <<>> for undefined
_getDefaultPluginForType(registry, type) ==
    LET plugins == IF type \in DOMAIN registry THEN registry[type] ELSE <<>>
        defaultsForType == SelectSeq(plugins, LAMBDA plugin : plugin.isDefaultForType)
    IN IF Len(defaultsForType) > 1
       THEN [error |-> Err("multiple default plugins",
                           <<type>> \o [i \in 1..Len(defaultsForType) |-> defaultsForType[i].name]),
             plugin |-> <<>>]
       ELSE [error |-> NoError,
             plugin |-> IF defaultsForType = <<>> THEN <<>> ELSE <<defaultsForType[1]>>]

\* defaultPluginForType.toTree(tree, options), or the standard preprocessor
CompileWith(st, d, tree, preprocessor) ==
    IF Failed(st) THEN Ret(st, NullTree)
    ELSE IF d.error.message # "" THEN Ret([st EXCEPT !.error = d.error], NullTree)
    ELSE IF d.plugin # <<>> THEN Ret(st, Tree("plugin.toTree", d.plugin[1].name, "", <<tree>>))
    ELSE Ret(st, Tree(preprocessor, "", "", <<tree>>))

_compileAddonTemplates(app, st, tree) ==
    CompileWith(st, _getDefaultPluginForType(app.config.plugins, "template"), tree,
                "preprocessTemplates")

_compileAddonJs(app, st, tree) ==
    CompileWith(st, _getDefaultPluginForType(app.config.plugins, "js"), tree, "preprocessJs")

_compileAddonTree(app, st, tree, skipTemplates) ==
    LET JsAfter(r) == _compileAddonJs(app, r.st, r.tree)
    IN IF skipTemplates THEN _compileAddonJs(app, st, tree)
       ELSE JsAfter(_compileAddonTemplates(app, st, tree))

\* _addonTree(type, outputDir, options).  options are the options after
\* Object.assign; Normalized and Precompiled are the two trees of the pair
\* made for an addon's tree; Combined is what is returned under
\* DELAYED_TRANSPILATION, compiled being what _compileAddonTree answered
\* (this._debugTree answers the tree it is given when debugging is off);
\* Merged is the tree after this._addonTreesFor(type) answered bundles
_addonTree(app, st, type, outputDir, given) ==
    LET c == app.config
        options ==
            [k \in {"amdFunnelDisabled", "moduleNormalizerDisabled", "skipTemplates"} |->
                IF k \in DOMAIN given THEN given[k]
                ELSE IF k = "skipTemplates" THEN FALSE ELSE c[k]]
        Normalized(tree) ==
            IF c.DELAYED_TRANSPILATION /\ ~options.moduleNormalizerDisabled
            THEN Tree("ModuleNormalizer", tree.of, type, <<tree>>) ELSE tree
        Precompiled(tree) ==
            IF c.DELAYED_TRANSPILATION /\ ~options.amdFunnelDisabled
            THEN Tree("AmdFunnel", tree.of, type, <<Normalized(tree)>>)
            ELSE Normalized(tree)
        Combined(addonTrees, compiled) ==
            IF Failed(compiled.st) THEN compiled
            ELSE IF options.amdFunnelDisabled THEN compiled
            ELSE Ret(compiled.st,
                     MergeTrees(Append(addonTrees, compiled.tree), TRUE, "AmdFunnel TreeMerger"))
        Merged(bundles) ==
            IF c.DELAYED_TRANSPILATION
            THEN Combined(
                   [i \in 1..Len(bundles.trees) |-> Normalized(bundles.trees[i])],
                   _compileAddonTree(
                     app, bundles.st,
                     MergeTrees([i \in 1..Len(bundles.trees) |-> Precompiled(bundles.trees[i])],
                                TRUE, "TreeMerger"),
                     options.skipTemplates))
            ELSE Ret(bundles.st, MergeTrees(bundles.trees, TRUE, "TreeMerger"))
        FunnelTo(r) ==
            IF Failed(r.st) THEN Ret(r.st, NullTree)
            ELSE Ret(r.st, Funnel(r.tree, outputDir, "Funnel: outputDir type"))
    IN FunnelTo(Merged(_addonTreesFor(st, app.addons, type, <<>>)))

StoreRet(field, r) == Store(r.st, field, r.tree)

\* addonTree without the test of the cache
AddonTreeUncached(app, st) ==
    StoreRet("_cachedAddonTree",
             _addonTree(app, Enter(st, "_cachedAddonTree"), "addon",
                        <<"addon-tree-output">>, [x \in {} |-> FALSE]))

addonTree(app, st) ==
    IF st.cached["_cachedAddonTree"] # <<>> THEN Cached(st, "_cachedAddonTree")
    ELSE StoreRet("_cachedAddonTree",
                  _addonTree(app, Enter(st, "_cachedAddonTree"), "addon",
                             <<"addon-tree-output">>, [x \in {} |-> FALSE]))

addonTestSupportTree(app, st) ==
    IF st.cached["_cachedAddonTestSupportTree"] # <<>>
    THEN Cached(st, "_cachedAddonTestSupportTree")
    ELSE StoreRet("_cachedAddonTestSupportTree",
                  _addonTree(app, Enter(st, "_cachedAddonTestSupportTree"),
                             "addon-test-support", <<"addon-test-support">>,
                             [skipTemplates |-> TRUE]))

addonSrcTree(app, st) ==
    IF st.cached["_cachedAddonSrcTree"] # <<>> THEN Cached(st, "_cachedAddonSrcTree")
    ELSE StoreRet("_cachedAddonSrcTree",
                  _addonTree(app, Enter(st, "_cachedAddonSrcTree"), "src",
                             <<"addon-tree-output">>,
                             [amdFunnelDisabled |-> TRUE, moduleNormalizerDisabled |-> TRUE]))

\* podTemplates()
podTemplates(app) ==
    FunnelSelect(AppTree(app.config, "app"), <<AppName>>, "Funnel: Pod Templates")

\* _templatesTree
_templatesTree(app, st) ==
    LET trees ==
            (IF "templates" \in app.config.trees
             THEN <<Funnel(AppTree(app.config, "templates"), <<AppName, "templates">>,
                           "Funnel: Templates")>>
             ELSE <<>>)
            \o (IF "app" \in app.config.trees THEN <<podTemplates(app)>> ELSE <<>>)
    IN IF st.cached["_cachedTemplateTree"] # <<>> THEN Cached(st, "_cachedTemplateTree")
       ELSE Store(Enter(st, "_cachedTemplateTree"), "_cachedTemplateTree",
                  MergeTrees(trees, FALSE, "TreeMerge (templates)"))

\* _nodeModuleTrees: Array.from(this._nodeModules.values(), module =>
\* new Funnel(module.path, { destDir: `node_modules/${module.name}/` })); the
\* characters of the name are the segments after node_modules, and the array
\* is the tree "array" of the funnels
_nodeModuleTrees(app, st) ==
    LET ModuleFunnel(name) ==
            Funnel([Tree("module.path", "", "", <<>>) EXCEPT !.dest = name],
                   <<"node_modules">> \o name, "Funnel (node_modules)")
        ModuleFunnels(modules) == [i \in 1..Len(modules) |-> ModuleFunnel(modules[i])]
    IN IF st.cached["_cachedNodeModuleTrees"] # <<>> THEN Cached(st, "_cachedNodeModuleTrees")
       ELSE Store(Enter(st, "_cachedNodeModuleTrees"), "_cachedNodeModuleTrees",
                  Tree("array", "", "", ModuleFunnels(app.nodeModules)))

\* getExternalTree: Vendor after this.addonTreesFor('vendor') answered
\* vendorTrees, Src after this.addonTree() answered addons, Bower after
\* this.addonSrcTree() answered addonsSrc, Merged after
\* this._nodeModuleTrees() answered nm
getExternalTree(app, st) ==
    LET Merged(trees, nm) ==
            Store(nm.st, "_cachedExternalTree",
                  MergeTrees(nm.tree.inputs \o trees, TRUE, "TreeMerger (ExternalTree)"))
        Bower(vendor, addons, addonsSrc) ==
            IF Failed(addonsSrc.st) THEN Ret(addonsSrc.st, NullTree)
            ELSE Merged(<<vendor, addons.tree, addonsSrc.tree>>
                        \o (IF app.config.bowerEnabled
                            THEN <<Packaged("packageBower", <<AppTree(app.config, "bower")>>)>>
                            ELSE <<>>),
                        _nodeModuleTrees(app, addonsSrc.st))
        Src(vendor, addons) ==
            IF Failed(addons.st) THEN Ret(addons.st, NullTree)
            ELSE Bower(vendor, addons, addonSrcTree(app, addons.st))
        Vendor(vendorTrees) ==
            Src(Packaged("packageVendor",
                         <<MergeTrees(Append(vendorTrees.trees, AppTree(app.config, "vendor")),
                                      TRUE, "TreeMerger (vendor)")>>),
                addonTree(app, vendorTrees.st))
    IN IF st.cached["_cachedExternalTree"] # <<>> THEN Cached(st, "_cachedExternalTree")
       ELSE Vendor(addonTreesFor(app, Enter(st, "_cachedExternalTree"), "vendor"))

\* _testAppConfigTree
_testAppConfigTree(app, st) ==
    IF st.cached["_cachedTestAppConfigTree"] # <<>>
    THEN Cached(st, "_cachedTestAppConfigTree")
    ELSE Store(Enter(st, "_cachedTestAppConfigTree"), "_cachedTestAppConfigTree",
               FunnelSelect(Tree("ConfigReplace", "", "test.json",
                                 <<Tree("UnwatchedDir", "", "__dirname", <<>>),
                                   Packaged("packageConfig", <<>>)>>),
                            <<"vendor", "ember-cli">>, "Funnel (test-app-config-tree)"))

\* styles.  Concats is the concat of every output file of
\* this._styleOutputFiles (the node holds the output file, its headerFiles
\* are the list itself); Minified is preprocessMinifyCss when
\* options.minifyCSS.enabled, which defaults to this.isProduction; External
\* is the method after this.addonTreesFor('styles') answered addonTrees,
\* Merged after this.getExternalTree() answered external, Vendor after the
\* first addonPreprocessTree answered stylesAndVendor, Postprocessed after
\* the last one answered vendorStyles
styles(app, st) ==
    LET keys == app.styleOutputKeys
        Concats(stylesAndVendor) ==
            [i \in 1..Len(keys) |-> Tree("concat", "", keys[i], <<stylesAndVendor>>)]
        Minified(tree) ==
            IF app.env = "production" THEN Tree("preprocessMinifyCss", "", "", <<tree>>)
            ELSE tree
        Postprocessed(stylesAndVendor, vendorStyles) ==
            StoreRet("_cachedStylesTree",
                     addonPostprocessTree(
                       app, vendorStyles.st, "css",
                       MergeTrees(<<Minified(Tree("preprocessCss", "", "",
                                                  <<stylesAndVendor.tree>>)),
                                    Minified(vendorStyles.tree)>>,
                                  FALSE, "styles")))
        Vendor(stylesAndVendor) ==
            Postprocessed(
              stylesAndVendor,
              addonPreprocessTree(app, stylesAndVendor.st, "css",
                                  MergeTrees(Concats(stylesAndVendor.tree),
                                             TRUE, "TreeMerger (vendorStyles)")))
        Merged(addonTrees, external) ==
            IF Failed(external.st) THEN Ret(external.st, NullTree)
            ELSE Vendor(
                   addonPreprocessTree(
                     app, external.st, "css",
                     MergeTrees(FilterBoolean(
                                  <<external.tree>> \o addonTrees.trees
                                  \o <<IF "styles" \in app.config.trees
                                       THEN Funnel(AppTree(app.config, "styles"),
                                                   <<"app", "styles">>, "Funnel (styles)")
                                       ELSE NullTree>>),
                                TRUE, "TreeMerger (stylesAndVendor)")))
        External(addonTrees) == Merged(addonTrees, getExternalTree(app, addonTrees.st))
    IN IF st.cached["_cachedStylesTree"] # <<>> THEN Cached(st, "_cachedStylesTree")
       ELSE External(addonTreesFor(app, Enter(st, "_cachedStylesTree"), "styles"))

\* getAppJavascript
getAppJavascript(app, st) ==
    LET Merged(addonTrees) ==
            Ret(addonTrees.st,
                Funnel(MergeTrees(FilterBoolean(Append(addonTrees.trees,
                                                       AppTree(app.config, "app"))),
                                  TRUE, "TreeMerger (app)"),
                       <<AppName>>, "ProcessedAppTree"))
    IN Merged(addonTreesFor(app, st, "app"))

\* getSrc
getSrc(app) ==
    IF "src" \notin app.config.trees THEN NullTree
    ELSE Funnel(AppTree(app.config, "src"), <<"src">>, "Funnel: src")

\* getAddonTemplates
getAddonTemplates(app, st) ==
    LET Merged(addonTrees) ==
            Ret(addonTrees.st,
                Funnel(MergeTrees(addonTrees.trees, TRUE, "TreeMerger (templates)"),
                       <<AppName, "templates">>, "ProcessedTemplateTree"))
    IN Merged(addonTreesFor(app, st, "templates"))

\* lintTestTrees.  LintFunnel is processModulesOnly(new Funnel(linted,
\* { destDir }), annotation); AppDone is the method after app was linted or
\* left out, SrcDone after src was linted or left out (lintTrees are the
\* trees pushed so far), Tests after the tests were linted, Templates after
\* this._templatesTree() answered templates; Done is
\* return [lintedTests, lintedTemplates].concat(lintTrees)
lintTestTrees(app, st) ==
    LET LintFunnel(linted, destDir) ==
            Ret(linted.st,
                Tree("processModulesOnly", "", "",
                     <<Funnel(linted.tree, destDir, "Funnel (lint)")>>))
        Done(lintTrees, lintedTests, lintedTemplates) ==
            RetList(lintedTemplates.st,
                    <<lintedTests.tree, lintedTemplates.tree>> \o lintTrees)
        Templates(lintTrees, lintedTests, templates) ==
            Done(lintTrees, lintedTests,
                 LintFunnel(addonLintTree(app, templates.st, "templates", templates.tree),
                            <<AppName, "tests">>))
        Tests(lintTrees, lintedTests) ==
            Templates(lintTrees, lintedTests, _templatesTree(app, lintedTests.st))
        SrcDone(s, lintTrees) ==
            Tests(lintTrees,
                  LintFunnel(addonLintTree(app, s, "tests", AppTree(app.config, "tests")),
                             <<AppName, "tests">>))
        SrcPushed(lintTrees, lintedSrc) ==
            SrcDone(lintedSrc.st, Append(lintTrees, lintedSrc.tree))
        AppDone(s, lintTrees) ==
            IF app.config.MODULE_UNIFICATION /\ "src" \in app.config.trees
            THEN SrcPushed(lintTrees,
                           LintFunnel(addonLintTree(app, s, "src", AppTree(app.config, "src")),
                                      <<AppName, "tests", "src">>))
            ELSE SrcDone(s, lintTrees)
        AppPushed(lintedApp) == AppDone(lintedApp.st, <<lintedApp.tree>>)
    IN IF "app" \in app.config.trees
       THEN AppPushed(LintFunnel(addonLintTree(app, st, "app",
                                               FunnelSelect(AppTree(app.config, "app"), <<>>,
                                                            "Funnel: Filtered App")),
                                 <<AppName, "tests">>))
       ELSE AppDone(st, <<>>)

\* appTests(coreTestTree): Linted after the lint trees were made (none when
\* this.hinting is false), Merged after this._testAppConfigTree() answered
\* testAppConfig
appTests(app, st, coreTestTree) ==
    LET Merged(linted, testAppConfig) ==
            Ret(testAppConfig.st,
                Tree("concat", "", "/assets/tests.js",
                     <<MergeTrees(FilterBoolean(
                                    linted \o <<Packaged("packageEmberCliInternalFiles", <<>>),
                                                testAppConfig.tree, coreTestTree>>),
                                  TRUE, "TreeMerger (appTestTrees)")>>))
        Linted(linted) == Merged(linted.trees, _testAppConfigTree(app, linted.st))
    IN IF app.config.hinting THEN Linted(lintTestTrees(app, st))
       ELSE Linted(RetList(st, <<>>))

\* testFiles(coreTestTree): External after this.getExternalTree() answered
\* external, Merged after this.addonTestSupportTree() answered support
testFiles(app, st, coreTestTree) ==
    LET Merged(external, support) ==
            IF Failed(support.st) THEN Ret(support.st, NullTree)
            ELSE Ret(support.st,
                     MergeTrees(
                       <<FunnelSelect(Tree("UnwatchedDir", "", "testem", <<>>), <<>>,
                                      "Funnel (testem)"),
                         Tree("concat", "", "/assets/test-support.js",
                              <<MergeTrees(<<Packaged("packageEmberCliInternalFiles", <<>>),
                                             external.tree, coreTestTree, support.tree>>,
                                           FALSE, "")>>)>>
                       \o (IF Len(app.vendorTestStaticStyles) > 0
                           THEN <<Tree("concat", "", "/assets/test-support.css",
                                       <<external.tree>>)>>
                           ELSE <<>>),
                       TRUE, "TreeMerger (testFiles)"))
        External(external) ==
            IF Failed(external.st) THEN Ret(external.st, NullTree)
            ELSE Merged(external, addonTestSupportTree(app, external.st))
    IN External(getExternalTree(app, st))

\* test(): Core after this.addonTreesFor('test-support') answered addonTrees
\* and the core test tree was packaged, FilesAfter after this.appTests
\* answered appTestTree, Merged after this.testFiles answered testFilesTree
test(app, st) ==
    LET Merged(appTestTree, testFilesTree) ==
            IF Failed(testFilesTree.st) THEN Ret(testFilesTree.st, NullTree)
            ELSE Ret(testFilesTree.st,
                     MergeTrees(<<appTestTree.tree, testFilesTree.tree>>, FALSE,
                                "TreeMerger (test)"))
        FilesAfter(appTestTree, coreTestTree) ==
            Merged(appTestTree, testFiles(app, appTestTree.st, coreTestTree))
        Core(s, coreTestTree) == FilesAfter(appTests(app, s, coreTestTree), coreTestTree)
        TestPackaged(addonTrees) ==
            Core(addonTrees.st,
                 Packaged("packageTests",
                          <<MergeTrees(Append(addonTrees.trees, AppTree(app.config, "tests")),
                                       TRUE, "TreeMerger (tests)")>>))
    IN TestPackaged(addonTreesFor(app, st, "test-support"))

\* testIndex
testIndex(app) ==
    Tree("ConfigReplace", "", "tests/index.html",
         <<FunnelSelect(AppTree(app.config, "tests"), <<"tests">>, "Funnel (test index)"),
           Packaged("packageConfig", <<>>)>>)

\* funnelReducer(this.otherAssetPaths): one funnel for the entries of the
\* same src and dest, in the order of their first entries
Shared(paths) ==
    SelectSeq([i \in 1..Len(paths) |->
                  IF \E j \in 1..(i - 1) :
                        paths[j].src = paths[i].src /\ paths[j].dest = paths[i].dest
                  THEN <<>> ELSE <<paths[i]>>],
              LAMBDA x : x # <<>>)

\* otherAssets
otherAssets(app, st) ==
    LET shared == Shared(app.otherAssetPaths)
        Merged(external) ==
            IF Failed(external.st) THEN Ret(external.st, NullTree)
            ELSE Ret(external.st,
                     MergeTrees([i \in 1..Len(shared) |->
                                    FunnelSelect(external.tree, shared[i][1].dest, "Funnel")],
                                FALSE, "TreeMerger (otherAssetTrees)"))
    IN Merged(getExternalTree(app, st))

\* toArray: Public after this.addonTreesFor('public') answered, AppJs after
\* this.getAppJavascript(), Templates after this.getAddonTemplates(),
\* External after this.getExternalTree(), Styled after this.styles(), Others
\* after this.otherAssets(), Tested after this.test() (sourceTrees are the
\* trees before the test trees)
toArray(app, st) ==
    LET Tested(sourceTrees, tested) ==
            IF Failed(tested.st) THEN RetList(tested.st, <<>>)
            ELSE RetList(tested.st, sourceTrees \o <<testIndex(app), tested.tree>>)
        SourceTrees(allJs, publicTree, styled, others) ==
            FilterBoolean(<<Packaged("processIndex", <<allJs>>),
                            Packaged("packageJavascript", <<allJs>>),
                            styled.tree, others.tree, publicTree>>)
        Others(allJs, publicTree, styled, others) ==
            IF Failed(others.st) THEN RetList(others.st, <<>>)
            ELSE IF app.config.tests /\ "tests" \in app.config.trees
            THEN Tested(SourceTrees(allJs, publicTree, styled, others), test(app, others.st))
            ELSE RetList(others.st, SourceTrees(allJs, publicTree, styled, others))
        Styled(allJs, publicTree, styled) ==
            IF Failed(styled.st) THEN RetList(styled.st, <<>>)
            ELSE Others(allJs, publicTree, styled, otherAssets(app, styled.st))
        External(publicTree, appJs, templates, external) ==
            IF Failed(external.st) THEN RetList(external.st, <<>>)
            ELSE Styled(MergeTrees(FilterBoolean(<<appJs.tree, templates.tree, external.tree,
                                                   getSrc(app)>>),
                                   TRUE, "Javascript"),
                        publicTree, styles(app, external.st))
        Templates(publicTree, appJs, templates) ==
            External(publicTree, appJs, templates, getExternalTree(app, templates.st))
        AppJs(publicTree, appJs) ==
            Templates(publicTree, appJs, getAddonTemplates(app, appJs.st))
        Public(addonPublicTrees) ==
            AppJs(Packaged("packagePublic",
                           Append(addonPublicTrees.trees, AppTree(app.config, "public"))),
                  getAppJavascript(app, addonPublicTrees.st))
    IN Public(addonTreesFor(app, st, "public"))

\* toTree(additionalTrees)
toTree(app, st, additionalTrees) ==
    LET Merged(trees) ==
            IF Failed(trees.st) THEN Ret(trees.st, NullTree)
            ELSE addonPostprocessTree(app, trees.st, "all",
                                      MergeTrees(trees.trees \o additionalTrees, TRUE,
                                                 "TreeMerger (allTrees)"))
    IN Merged(toArray(app, st))

\* the files of a tree of the application or of an addon, of a funnel that
\* moves its input to destDir, and of a merge, where the file of a later
\* input replaces the file of an earlier one at the same path; the files of
\* the other trees are not modelled
RECURSIVE Files(_, _)
Files(c, tree) ==
    IF tree.op = "trees"
    THEN IF tree.note \in DOMAIN c.files THEN c.files[tree.note] ELSE [p \in {} |-> ""]
    ELSE IF tree.op = "treeFor"
    THEN LET i == CHOOSE i \in 1..Len(c.declared) : c.declared[i].name = tree.of
         IN c.declared[i].treeFor.trees[tree.note].files
    ELSE IF tree.op = "Funnel"
    THEN LET f == Files(c, tree.inputs[1])
         IN [p \in {tree.dest \o q : q \in DOMAIN f} |->
                f[SubSeq(p, Len(tree.dest) + 1, Len(p))]]
    ELSE IF tree.op = "mergeTrees" /\ tree.inputs # <<>>
    THEN LET earlier == Files(c, [tree EXCEPT !.inputs = SubSeq(@, 1, Len(@) - 1)])
             latest == Files(c, tree.inputs[Len(tree.inputs)])
         IN [p \in DOMAIN earlier \cup DOMAIN latest |->
                IF p \in DOMAIN latest THEN latest[p] ELSE earlier[p]]
    ELSE [p \in {} |-> ""]

-----------------------------------------------------------------------------
(* Configurations *)

\* what importTransforms returns: a map, or undefined
TransformMap(keys, entries) == [kind |-> "map", keys |-> keys, entries |-> entries]
NoTransformMap ==
    [kind |-> "undefined", keys |-> <<>>, entries |-> [n \in {} |-> 0]]

\* the entries of a transform map
FunctionEntry ==
    [typeof |-> "function", isNull |-> FALSE, transform |-> FALSE, processOptions |-> FALSE]
ObjectEntry(transform, processOptions) ==
    [typeof |-> "object", isNull |-> FALSE, transform |-> transform,
     processOptions |-> processOptions]
NullEntry ==
    [typeof |-> "object", isNull |-> TRUE, transform |-> FALSE, processOptions |-> FALSE]
StringEntry ==
    [typeof |-> "string", isNull |-> FALSE, transform |-> FALSE, processOptions |-> FALSE]

\* an addon without hooks, and the fields of an addon that has some
PlainAddon(name) ==
    [name |-> name, isEnabled |-> "absent", included |-> FALSE,
     importTransforms |-> [defined |-> FALSE, returns |-> NoTransformMap],
     treeFor |-> [defined |-> FALSE, trees |-> [t \in {} |-> 0]],
     preprocessTree |-> FALSE, postprocessTree |-> FALSE, lintTree |-> FALSE]

WithTransforms(addon, returns) ==
    [addon EXCEPT !.importTransforms = [defined |-> TRUE, returns |-> returns]]

WithTrees(addon, trees) == [addon EXCEPT !.treeFor = [defined |-> TRUE, trees |-> trees]]

\* a tree an addon's treeFor returns
AddonFiles(files) == [isEmpty |-> FALSE, files |-> files]
EmptyTree == [isEmpty |-> TRUE, files |-> [p \in {} |-> ""]]

\* a project: its addons in declaration order and options.addons, with the
\* rest of the configuration that of an application in development that has
\* its loader, the trees app, styles, templates, tests, vendor and public,
\* no bower directory and no experiment
Project(declared, blacklist, whitelist) ==
    [declared |-> declared,
     addons |-> [blacklist |-> blacklist, whitelist |-> whitelist],
     loaderInstalled |-> TRUE, ignoreMissingLoader |-> FALSE,
     vendorFiles |-> <<>>,
     plugins |-> [type \in {"template", "js"} |-> <<>>],
     trees |-> {"app", "styles", "templates", "tests", "vendor", "public"},
     files |-> [n \in {"styles", "app"} |->
                  IF n = "styles" THEN [p \in {<<"x.css">>} |-> "app"]
                  ELSE [p \in {<<"x.js">>} |-> "app"]],
     tests |-> TRUE, hinting |-> TRUE, bowerEnabled |-> FALSE,
     DELAYED_TRANSPILATION |-> FALSE, MODULE_UNIFICATION |-> FALSE,
     amdFunnelDisabled |-> FALSE, moduleNormalizerDisabled |-> FALSE]

\* the project of the import specifications: one addon, which registers the
\* transform wrap as an object and the transform amd as a function
DefaultConfig ==
    Project(<<WithTransforms(PlainAddon("x"),
                             TransformMap(<<"wrap", "amd">>,
                                          [n \in {"wrap", "amd"} |->
                                              IF n = "wrap" THEN ObjectEntry(TRUE, TRUE)
                                              ELSE FunctionEntry]))>>,
            Undefined, Undefined)

-----------------------------------------------------------------------------
(* The instance after construction, and the calls made on it *)

\* bounds of the model: otherAssetPaths and a transform's files grow with
\* every call, so calls that would pass these lengths are not made
MaxOther == 1
MaxFiles == 2

\* the hooks called grow with every call of a tree method, so no more than
\* this many calls are made
MaxCalls == 2

\* the transforms the constructor registers for the project of the import
\* specifications
RegisteredTransforms == EmberApp(DefaultConfig).map

\* last before any call
NoCall == [assetPath |-> Undefined, type |-> "", prepend |-> FALSE, outputFile |-> "",
           outcome |-> "none", error |-> NoError, logged |-> 0]

\* lastTree before any call of a tree method
NoTreeCall == [method |-> "", tree |-> NullTree, error |-> NoError, calls |-> 0]

\* the fields import reads and writes as the constructor first sets them,
\* before populateLegacyFiles
FreshApp(e) ==
    [env |-> e,
     scriptOutputFiles |-> [f \in {} |-> <<>>],
     styleOutputFiles |-> [f \in {VendorCss} |-> <<>>],
     scriptOutputKeys |-> <<>>,
     styleOutputKeys |-> <<VendorCss>>,
     legacyTestFilesToAppend |-> <<>>,
     vendorTestStaticStyles |-> <<>>,
     otherAssetPaths |-> <<>>,
     customTransformsMap |-> [n \in {} |-> 0],
     nodeModules |-> <<>>]

\* the fields import writes are those of app (the registry of transforms is
\* set by the caller), and no method has been called
InitFields(app) ==
    /\ env = app.env
    /\ styleOutputFiles = app.styleOutputFiles
    /\ scriptOutputFiles = app.scriptOutputFiles
    /\ styleOutputKeys = app.styleOutputKeys
    /\ scriptOutputKeys = app.scriptOutputKeys
    /\ otherAssetPaths = app.otherAssetPaths
    /\ legacyTestFilesToAppend = app.legacyTestFilesToAppend
    /\ vendorTestStaticStyles = app.vendorTestStaticStyles
    /\ nodeModules = app.nodeModules
    /\ last = NoCall
    /\ cached = [f \in CacheFields |-> <<>>]
    /\ derived = [f \in CacheFields |-> 0]
    /\ lastTree = NoTreeCall

\* the instance new EmberApp(...) returned for configuration c
InitBuilt(e, c) ==
    /\ \E l \in {populateLegacyFiles(FreshApp(e), c.vendorFiles)} :
          /\ l.error.message = ""
          /\ InitFields(l.app)
    /\ project = c
    /\ \E b \in {EmberApp(c)} :
          /\ b.error.message = ""
          /\ customTransformsMap = b.map
          /\ projectAddons = b.addons
          /\ hooks = b.hooks
          /\ warnings = b.warnings
    /\ constructed = "ready"
    /\ thrown = NoError

\* the instance of the import specifications
InitApp(e) == InitBuilt(e, DefaultConfig)

\* the project before new EmberApp(...): project.addons are the declared
\* addons, and the fields of the instance are shown as the constructor first
\* sets them
InitNew(e, c) ==
    /\ InitFields(FreshApp(e))
    /\ project = c
    /\ customTransformsMap = [n \in {} |-> 0]
    /\ projectAddons = c.declared
    /\ hooks = <<>>
    /\ warnings = <<>>
    /\ constructed = "new"
    /\ thrown = NoError

\* new EmberApp(...): populateLegacyFiles, and when it has not thrown the
\* rest of the constructor; last is kept for the calls made on the instance
Construct ==
    /\ constructed = "new"
    /\ \E l \in {populateLegacyFiles(App, project.vendorFiles)} :
          /\ scriptOutputFiles' = l.app.scriptOutputFiles
          /\ styleOutputFiles' = l.app.styleOutputFiles
          /\ scriptOutputKeys' = l.app.scriptOutputKeys
          /\ styleOutputKeys' = l.app.styleOutputKeys
          /\ legacyTestFilesToAppend' = l.app.legacyTestFilesToAppend
          /\ vendorTestStaticStyles' = l.app.vendorTestStaticStyles
          /\ otherAssetPaths' = l.app.otherAssetPaths
          /\ nodeModules' = l.app.nodeModules
          /\ IF l.error.message # ""
             THEN /\ constructed' = "failed"
                  /\ thrown' = l.error
                  /\ UNCHANGED <<customTransformsMap, projectAddons, hooks, warnings>>
             ELSE \E b \in {EmberApp(project)} :
                     /\ customTransformsMap' = b.map
                     /\ projectAddons' = b.addons
                     /\ hooks' = b.hooks
                     /\ warnings' = b.warnings
                     /\ constructed' = IF b.error.message = "" THEN "ready" ELSE "failed"
                     /\ thrown' = b.error
    /\ UNCHANGED <<env, last, project, cached, derived, lastTree>>

WithinBounds(app) ==
    /\ Len(app.otherAssetPaths) <= MaxOther
    /\ \A n \in DOMAIN app.customTransformsMap :
          Len(app.customTransformsMap[n].files) <= MaxFiles

\* the call as last records it: the resolved path and the options after
\* defaultsDeep ("" for no outputFile), then how it ended
Summary(g, options, r) ==
    [assetPath |-> g.assetPath,
     type |-> options.type,
     prepend |-> options.prepend,
     outputFile |-> IF "outputFile" \in DOMAIN options THEN options.outputFile ELSE "",
     outcome |-> r.outcome, error |-> r.error, logged |-> r.logged]

\* one call app.import(asset, options)
ImportCall(asset, options) ==
    \E r \in {import(App, asset, options)} :
       /\ constructed = "ready"
       /\ WithinBounds(r.app)
       /\ env' = r.app.env
       /\ scriptOutputFiles' = r.app.scriptOutputFiles
       /\ styleOutputFiles' = r.app.styleOutputFiles
       /\ scriptOutputKeys' = r.app.scriptOutputKeys
       /\ styleOutputKeys' = r.app.styleOutputKeys
       /\ legacyTestFilesToAppend' = r.app.legacyTestFilesToAppend
       /\ vendorTestStaticStyles' = r.app.vendorTestStaticStyles
       /\ otherAssetPaths' = r.app.otherAssetPaths
       /\ customTransformsMap' = r.app.customTransformsMap
       /\ nodeModules' = r.app.nodeModules
       /\ last' = Summary(_getAssetPath(App, asset), WithDefaults(options), r)
       /\ UNCHANGED buildVars

\* the fields the tree methods read
TreeApp ==
    [config |-> project, addons |-> projectAddons, env |-> env,
     styleOutputFiles |-> styleOutputFiles, styleOutputKeys |-> styleOutputKeys,
     nodeModules |-> nodeModules,
     vendorTestStaticStyles |-> vendorTestStaticStyles,
     otherAssetPaths |-> otherAssetPaths]

\* the fields the tree methods write
TreeState == Trees(hooks, cached, derived, NoError)

\* one call of a tree method that answered r
TreeCall(method, r) ==
    /\ constructed = "ready"
    /\ lastTree.calls < MaxCalls
    /\ hooks' = r.st.hooks
    /\ cached' = r.st.cached
    /\ derived' = r.st.derived
    /\ lastTree' = [method |-> method, tree |-> r.tree, error |-> r.st.error,
                    calls |-> lastTree.calls + 1]
    /\ UNCHANGED <<importVars, project, projectAddons, warnings, constructed, thrown>>

\* asset paths
Str(s) == [type |-> "string", value |-> s]
Obj(m) == [type |-> "object", value |-> m]
A_js == <<"v", "/", "a", ".", "j", "s">>
B_js == <<"v", "/", "b", ".", "j", "s">>
C_js == <<"v", "/", "c", ".", "j", "s">>
A_css == <<"v", "/", "a", ".", "c", "s", "s">>
B_css == <<"v", "/", "b", ".", "c", "s", "s">>
C_css == <<"v", "/", "c", ".", "c", "s", "s">>
X_png == <<"v", "e", "n", "d", "o", "r", "/", "i", "/", "x", ".", "p", "n", "g">>

OtherJs == "/assets/other.js"
OtherCss == "/assets/other.css"

\* options objects: every combination of the given values, with and without
\* an outputFile
OptionsOf(types, prepends, outputFiles) ==
    {[type |-> t, prepend |-> p] : t \in types, p \in prepends}
    \cup {[type |-> t, prepend |-> p, outputFile |-> f] :
             t \in types, p \in prepends, f \in outputFiles}

(* Vendor script imports: three paths, two output files; "tests" is a type *)
(* the code does not know                                                  *)
ScriptAssets == {Str(A_js), Str(B_js), Str(C_js)}
ScriptOptions == OptionsOf({"vendor", "tests"}, BOOLEAN, {OtherJs})

ImportScript == \E a \in ScriptAssets, o \in ScriptOptions : ImportCall(a, o)
NextScripts == ImportScript
SpecScripts == InitApp("development") /\ [][NextScripts]_vars

(* Vendor style imports: three paths, two output files *)
StyleAssets == {Str(A_css), Str(B_css), Str(C_css)}
StyleOptions == OptionsOf({"vendor"}, BOOLEAN, {OtherCss})

ImportStyle == \E a \in StyleAssets, o \in StyleOptions : ImportCall(a, o)
NextStyles == ImportStyle
SpecStyles == InitApp("development") /\ [][NextStyles]_vars

(* Imports of every kind into every bundle *)
MixedScriptAssets == {Str(A_js), Str(B_js)}
MixedStyleAssets == {Str(A_css)}
MixedOtherAssets == {Str(X_png)}
MixedScriptOptions == OptionsOf({"vendor", "test"}, BOOLEAN, {OtherJs})
MixedStyleOptions == OptionsOf({"vendor", "test"}, BOOLEAN, {})
MixedOtherOptions == {[type |-> "vendor"]}

ImportMixedScript == \E a \in MixedScriptAssets, o \in MixedScriptOptions : ImportCall(a, o)
ImportMixedStyle == \E a \in MixedStyleAssets, o \in MixedStyleOptions : ImportCall(a, o)
ImportMixedOther == \E a \in MixedOtherAssets, o \in MixedOtherOptions : ImportCall(a, o)

Init == InitApp("development")
Next == ImportMixedScript \/ ImportMixedStyle \/ ImportMixedOther
Spec == Init /\ [][Next]_vars

(* Imports of every extension with every type, 'tests' being a type the  *)
(* code does not know, into the default and into another output file     *)
RoutedScriptAssets == {Str(A_js)}
RoutedStyleAssets == {Str(A_css)}
RoutedTypes == {"vendor", "test", "tests"}
RoutedScriptOptions == OptionsOf(RoutedTypes, BOOLEAN, {OtherJs})
RoutedStyleOptions == OptionsOf(RoutedTypes, BOOLEAN, {OtherCss})

ImportRoutedScript ==
    \E a \in RoutedScriptAssets, o \in RoutedScriptOptions : ImportCall(a, o)
ImportRoutedStyle ==
    \E a \in RoutedStyleAssets, o \in RoutedStyleOptions : ImportCall(a, o)
ImportRoutedOther ==
    \E a \in MixedOtherAssets, o \in MixedOtherOptions : ImportCall(a, o)

NextRouting == ImportRoutedScript \/ ImportRoutedStyle \/ ImportRoutedOther
SpecRouting == InitApp("development") /\ [][NextRouting]_vars

(* Asset arguments of every shape, with the options left to their defaults *)
Envs == {"development", "production"}

A_js_backslash == <<"v", "\\", "a", ".", "j", "s">>
Root_css == <<"a", ".", "c", "s", "s">>
NoExt == <<"v", "/", "l", "i", "b">>
DotFile == <<"v", "/", ".", "r", "c">>
DotDir == <<"v", ".", "d", "/", "l", "i", "b">>
TrailingDot == <<"v", "/", "a", ".">>
Star_js == <<"v", "/", "*", ".", "j", "s">>
Comma_js == <<"v", "/", "a", ",", "b", ".", "j", "s">>
StarNoExt == <<"v", "\\", "*">>
P_js == NodeModulesSlash \o <<"p", "/", "i", ".", "j", "s">>
P_lib == NodeModulesSlash \o <<"p", "/", "l", "i", "b">>
Q_js == NodeModulesSlash \o <<"q", "/", "i", ".", "j", "s">>
Q_star == NodeModulesSlash \o <<"q", "/", "*", ".", "j", "s">>

StringAssets ==
    {Str(s) : s \in {A_js, A_js_backslash, Root_css, NoExt, DotFile, DotDir, TrailingDot,
                     Star_js, Comma_js, StarNoExt, P_js, P_lib, Q_js, Q_star,
                     <<>>, Undefined}}

EnvMapAssets ==
    {Obj([development |-> A_js, production |-> B_js]),
     Obj([development |-> A_js]),
     Obj([production |-> B_js]),
     Obj([development |-> A_js, production |-> Null]),
     Obj([development |-> Undefined, production |-> B_js]),
     Obj([development |-> NoExt, production |-> Star_js]),
     Obj([test |-> A_js])}

AssetOptions == {[x \in {} |-> TRUE], [prepend |-> TRUE], [destDir |-> <<>>]}

ImportString == \E a \in StringAssets, o \in AssetOptions : ImportCall(a, o)
ImportEnvMap == \E a \in EnvMapAssets, o \in AssetOptions : ImportCall(a, o)
InitAssets == \E e \in Envs : InitApp(e)
NextAssets == ImportString \/ ImportEnvMap
SpecAssets == InitAssets /\ [][NextAssets]_vars

(* Script imports with a using list *)
Entry(name) == [transformation |-> name]
UsingValues ==
    {[isArray |-> FALSE]}
    \cup {[isArray |-> TRUE, items |-> u] :
            u \in {<<>>, <<Entry("wrap")>>, <<Entry("shim")>>, <<Entry("")>>,
                   <<[as |-> "x"]>>, <<Entry("wrap"), Entry("shim")>>,
                   <<[as |-> "x"], Entry("shim")>>,
                   <<Entry("wrap"), Entry("wrap")>>,
                   <<Entry("amd")>>, <<Entry("amd"), Entry("wrap")>>}}
UsingOptions ==
    {[type |-> "vendor", prepend |-> FALSE, using |-> u] : u \in UsingValues}
    \cup {[type |-> "vendor", prepend |-> TRUE, using |-> u] :
            u \in {[isArray |-> TRUE, items |-> <<Entry("wrap")>>],
                   [isArray |-> TRUE, items |-> <<Entry("shim")>>]}}
    \cup {[type |-> "tests", prepend |-> FALSE,
           using |-> [isArray |-> TRUE, items |-> <<Entry("wrap")>>]]}
    \cup {[type |-> "vendor"]}

ImportUsing == \E a \in MixedScriptAssets, o \in UsingOptions : ImportCall(a, o)
NextUsing == ImportUsing
SpecUsing == InitApp("development") /\ [][NextUsing]_vars

(* Construction: projects of three addons a, b and c, declared in this     *)
(* order, each in several variants, under every deny-list and allow-list   *)
(* below; then imports and toTree on the instance                          *)
Hooked(addon, isEnabled) == [addon EXCEPT !.isEnabled = isEnabled, !.included = TRUE]

WrapMap(entry) == TransformMap(<<"wrap">>, [n \in {"wrap"} |-> entry])

VariantsOfA ==
    {Hooked(WithTransforms(PlainAddon("a"), WrapMap(ObjectEntry(TRUE, TRUE))), "absent"),
     Hooked(WithTransforms(PlainAddon("a"), WrapMap(ObjectEntry(TRUE, TRUE))), "false"),
     Hooked(WithTransforms(PlainAddon("a"), NoTransformMap), "true")}

VariantsOfB ==
    {Hooked(WithTransforms(PlainAddon("b"),
                           TransformMap(<<"amd", "wrap">>,
                                        [n \in {"amd", "wrap"} |-> FunctionEntry])),
            "absent"),
     Hooked(WithTransforms(PlainAddon("b"), WrapMap(ObjectEntry(FALSE, FALSE))), "absent"),
     Hooked(WithTransforms(PlainAddon("b"), WrapMap(StringEntry)), "true"),
     PlainAddon("b")}

VariantsOfC ==
    {Hooked(WithTransforms(PlainAddon("c"), WrapMap(ObjectEntry(TRUE, TRUE))), "true"),
     Hooked(WithTransforms(PlainAddon("c"), WrapMap(NullEntry)), "absent"),
     Hooked(WithTransforms(PlainAddon("c"), WrapMap(FunctionEntry)), "false")}

Blacklists == {Undefined, <<>>, <<"a">>, <<"c">>, <<"ghost">>, <<"c", "ghost">>}
Whitelists == {Undefined, Null, <<>>, <<"a", "b">>, <<"b", "c">>, <<"b", "ghost">>}

\* entries of this.vendorFiles: null, or the arguments of the import
VendorFile(asset, options) == [isNull |-> FALSE, asset |-> asset, options |-> options]
NullVendorFile == [isNull |-> TRUE]

\* this.vendorFiles in the order of for...in: a script, a null entry, a map
\* of environments and a test script, as the defaults for jquery.js,
\* handlebars.js, ember.js and ember-testing.js are; and vendorFiles whose
\* second entry is a directory
LegacyFiles ==
    {<<VendorFile(Str(A_js), [x \in {} |-> TRUE]),
       NullVendorFile,
       VendorFile(Obj([development |-> B_js, production |-> C_js]), [x \in {} |-> TRUE]),
       VendorFile(Str(C_js), [type |-> "test"])>>,
     <<VendorFile(Str(A_js), [x \in {} |-> TRUE]),
       VendorFile(Str(NoExt), [x \in {} |-> TRUE]),
       VendorFile(Str(B_js), [x \in {} |-> TRUE])>>}

BuildProjects ==
    {Project(<<a, b, c>>, blacklist, whitelist) :
        a \in VariantsOfA, b \in VariantsOfB, c \in VariantsOfC,
        blacklist \in Blacklists, whitelist \in Whitelists}
    \cup {[Project(<<a, PlainAddon("b"), Hooked(PlainAddon("c"), "true")>>,
                   Undefined, Undefined) EXCEPT !.vendorFiles = v] :
             a \in VariantsOfA, v \in LegacyFiles}

BuildImportOptions ==
    {[type |-> "vendor"],
     [type |-> "vendor", using |-> [isArray |-> TRUE, items |-> <<Entry("wrap")>>]]}

ImportBuilt == \E o \in BuildImportOptions : ImportCall(Str(A_js), o)
ToTreeBuilt == TreeCall("toTree", toTree(TreeApp, TreeState, <<>>))

InitBuild == \E c \in BuildProjects : InitNew("development", c)
NextBuild == Construct \/ ImportBuilt \/ ToTreeBuilt
SpecBuild == InitBuild /\ [][NextBuild]_vars

(* Trees: projects of three addons that return trees, where a and b (and  *)
(* c, when it is enabled) return files at the same paths, with the plugin  *)
(* registries below; every memoized tree method, getAppJavascript and      *)
(* toTree, with imports between them                                       *)
StylesOf(owner, names) ==
    AddonFiles([p \in {<<"app", "styles", n>> : n \in names} |-> owner])

ScriptsOf(owner, names) == AddonFiles([p \in {<<n>> : n \in names} |-> owner])

TreesOf(owner, styleNames, scriptNames) ==
    [type \in {"styles", "app", "addon", "vendor"} |->
        IF type = "styles" THEN StylesOf(owner, styleNames)
        ELSE IF type = "app" THEN ScriptsOf(owner, scriptNames)
        ELSE IF type = "addon" THEN ScriptsOf(owner, {owner})
        ELSE EmptyTree]

TreeAddonA ==
    [WithTrees(Hooked(PlainAddon("a"), "absent"),
               TreesOf("a", {"x.css", "y.css", "a.css"}, {"x.js", "y.js"}))
     EXCEPT !.preprocessTree = TRUE]

TreeAddonB ==
    [WithTrees(Hooked(PlainAddon("b"), "true"), TreesOf("b", {"y.css"}, {"y.js", "b.js"}))
     EXCEPT !.postprocessTree = TRUE, !.lintTree = TRUE]

VariantsOfTreeAddonC ==
    {[WithTrees(Hooked(PlainAddon("c"), isEnabled), TreesOf("c", {"y.css", "a.css"}, {"y.js"}))
      EXCEPT !.preprocessTree = TRUE, !.postprocessTree = TRUE, !.lintTree = TRUE] :
        isEnabled \in {"absent", "false"}}

Plugin(name, isDefaultForType) == [name |-> name, isDefaultForType |-> isDefaultForType]

\* what this.registry.load answers for the types template and js
Registries ==
    {[type \in {"template", "js"} |-> <<>>],
     [type \in {"template", "js"} |->
         IF type = "template" THEN <<Plugin("t1", TRUE), Plugin("t2", FALSE)>>
         ELSE <<Plugin("j1", FALSE), Plugin("j2", TRUE)>>],
     [type \in {"template", "js"} |->
         IF type = "template"
         THEN <<Plugin("t1", TRUE), Plugin("t2", FALSE), Plugin("t3", TRUE)>>
         ELSE <<>>],
     [type \in {"template", "js"} |->
         IF type = "template" THEN <<>>
         ELSE <<Plugin("j1", TRUE), Plugin("j2", TRUE)>>]}

\* the registry and whether DELAYED_TRANSPILATION is on: without it no
\* plugin is asked for
Compilations ==
    {[registry |-> registry, delayed |-> TRUE] : registry \in Registries}
    \cup {[registry |-> [type \in {"template", "js"} |-> <<>>], delayed |-> FALSE]}

TreeProjects ==
    {[Project(<<TreeAddonA, TreeAddonB, c>>, Undefined, Undefined)
      EXCEPT !.plugins = k.registry, !.DELAYED_TRANSPILATION = k.delayed] :
        c \in VariantsOfTreeAddonC, k \in Compilations}
    \cup {[Project(<<TreeAddonA, TreeAddonB, c>>, <<"a">>, Undefined)
           EXCEPT !.plugins = k.registry, !.DELAYED_TRANSPILATION = k.delayed] :
             c \in {x \in VariantsOfTreeAddonC : x.isEnabled = "absent"}, k \in Compilations}

TreeImportOptions == {[type |-> "vendor"], [type |-> "vendor", outputFile |-> OtherCss]}

ImportBetween == \E o \in TreeImportOptions : ImportCall(Str(A_css), o)
CallTemplatesTree == TreeCall("_templatesTree", _templatesTree(TreeApp, TreeState))
CallNodeModuleTrees == TreeCall("_nodeModuleTrees", _nodeModuleTrees(TreeApp, TreeState))
CallAddonTree == TreeCall("addonTree", addonTree(TreeApp, TreeState))
CallAddonTestSupportTree ==
    TreeCall("addonTestSupportTree", addonTestSupportTree(TreeApp, TreeState))
CallAddonSrcTree == TreeCall("addonSrcTree", addonSrcTree(TreeApp, TreeState))
CallGetExternalTree == TreeCall("getExternalTree", getExternalTree(TreeApp, TreeState))
CallTestAppConfigTree == TreeCall("_testAppConfigTree", _testAppConfigTree(TreeApp, TreeState))
CallStyles == TreeCall("styles", styles(TreeApp, TreeState))
CallGetAppJavascript == TreeCall("getAppJavascript", getAppJavascript(TreeApp, TreeState))
CallToTree == TreeCall("toTree", toTree(TreeApp, TreeState, <<>>))

InitTrees == \E c \in TreeProjects : InitNew("development", c)
NextTrees ==
    \/ Construct
    \/ ImportBetween
    \/ CallTemplatesTree
    \/ CallNodeModuleTrees
    \/ CallAddonTree
    \/ CallAddonTestSupportTree
    \/ CallAddonSrcTree
    \/ CallGetExternalTree
    \/ CallTestAppConfigTree
    \/ CallStyles
    \/ CallGetAppJavascript
    \/ CallToTree
SpecTrees == InitTrees /\ [][NextTrees]_vars

-----------------------------------------------------------------------------
(* Properties of the conflict policies *)

\* fileList without the entries equal to assetPath
Without(fileList, assetPath) == SelectSeq(fileList, LAMBDA x : x # assetPath)

\* the paths held by fileList, none twice
NoDuplicate(fileList) ==
    \A i, j \in 1..Len(fileList) : fileList[i] = fileList[j] => i = j

\* the options of a vendor import into output file f
VendorInto(f, prepend) == [type |-> "vendor", prepend |-> prepend, outputFile |-> f]

\* C1: first-one-wins, plain re-import.  In every reachable state, for every
\* output file F and every path p in the script list of F, the call
\* import(p, {type: 'vendor', prepend: false, outputFile: F}) returns without
\* an error and leaves that list as it was, contents and order.
C1_PlainReimportOfScriptIsNoOp ==
    \A f \in DOMAIN scriptOutputFiles :
        \A i \in 1..Len(scriptOutputFiles[f]) :
            \E r \in {import(App, Str(scriptOutputFiles[f][i]), VendorInto(f, FALSE))} :
                /\ r.outcome = "ok"
                /\ r.app.scriptOutputFiles[f] = scriptOutputFiles[f]

\* a plain re-import of the first of three scripts of other.js has just been
\* rejected
C1_Witness ==
    /\ last.outcome = "ok" /\ last.logged = 1
    /\ last.type = "vendor" /\ ~last.prepend /\ last.outputFile = OtherJs
    /\ OtherJs \in DOMAIN scriptOutputFiles
    /\ Len(scriptOutputFiles[OtherJs]) = 3
    /\ scriptOutputFiles[OtherJs][1] = last.assetPath

\* C2: first-one-wins, prepend re-import.  In every reachable state, for
\* every output file F and every path p in the script list L of F, the call
\* import(p, {type: 'vendor', prepend: true, outputFile: F}) leaves a list
\* that has p at index 0, is as long as L, and holds the other paths of L
\* in their previous order.
C2_PrependReimportOfScriptMovesToFront ==
    \A f \in DOMAIN scriptOutputFiles :
        \A i \in 1..Len(scriptOutputFiles[f]) :
            \E p \in {scriptOutputFiles[f][i]} :
            \E r \in {import(App, Str(p), VendorInto(f, TRUE))} :
                /\ r.outcome = "ok"
                /\ Len(r.app.scriptOutputFiles[f]) = Len(scriptOutputFiles[f])
                /\ Head(r.app.scriptOutputFiles[f]) = p
                /\ Without(r.app.scriptOutputFiles[f], p) = Without(scriptOutputFiles[f], p)

\* a prepend re-import has just moved a script to the front of the three
\* scripts of other.js
C2_Witness ==
    /\ last.outcome = "ok" /\ last.logged = 1
    /\ last.type = "vendor" /\ last.prepend /\ last.outputFile = OtherJs
    /\ OtherJs \in DOMAIN scriptOutputFiles
    /\ Len(scriptOutputFiles[OtherJs]) = 3
    /\ scriptOutputFiles[OtherJs][1] = last.assetPath

\* C3: last-one-wins, plain re-import.  In every reachable state, for every
\* output file F and every .css path p in the style list L of F, the call
\* import(p, {type: 'vendor', prepend: false, outputFile: F}) leaves a list
\* that has p last, is as long as L, and holds the other paths of L in
\* their previous order.
C3_PlainReimportOfStyleMovesToEnd ==
    \A f \in DOMAIN styleOutputFiles :
        \A i \in 1..Len(styleOutputFiles[f]) :
            \E p \in {styleOutputFiles[f][i]} :
            \E r \in {import(App, Str(p), VendorInto(f, FALSE))} :
                /\ Extname(p) = <<".", "c", "s", "s">>
                /\ r.outcome = "ok"
                /\ Len(r.app.styleOutputFiles[f]) = Len(styleOutputFiles[f])
                /\ r.app.styleOutputFiles[f][Len(styleOutputFiles[f])] = p
                /\ Without(r.app.styleOutputFiles[f], p) = Without(styleOutputFiles[f], p)

\* a plain re-import has just moved a style to the end of the three styles
\* of vendor.css
C3_Witness ==
    /\ last.outcome = "ok" /\ last.logged = 1
    /\ last.type = "vendor" /\ ~last.prepend /\ last.outputFile = ""
    /\ Len(styleOutputFiles[VendorCss]) = 3
    /\ styleOutputFiles[VendorCss][3] = last.assetPath

\* C4: last-one-wins, prepend of a present path.  In every reachable state,
\* for every output file F and every .css path p in the style list of F, the
\* call import(p, {type: 'vendor', prepend: true, outputFile: F}) returns
\* without an error and leaves that list as it was, contents and order.
C4_PrependOfPresentStyleIsNoOp ==
    \A f \in DOMAIN styleOutputFiles :
        \A i \in 1..Len(styleOutputFiles[f]) :
            \E r \in {import(App, Str(styleOutputFiles[f][i]), VendorInto(f, TRUE))} :
                /\ r.outcome = "ok"
                /\ r.app.styleOutputFiles[f] = styleOutputFiles[f]

\* a prepend of the last of three styles of other.css has just been rejected
C4_Witness ==
    /\ last.outcome = "ok" /\ last.logged = 1
    /\ last.type = "vendor" /\ last.prepend /\ last.outputFile = OtherCss
    /\ OtherCss \in DOMAIN styleOutputFiles
    /\ Len(styleOutputFiles[OtherCss]) = 3
    /\ styleOutputFiles[OtherCss][3] = last.assetPath

\* C5: no duplicates.  In every state reached from a fresh instance by import
\* calls, no path occurs twice in a list of _scriptOutputFiles, in a list of
\* _styleOutputFiles, in legacyTestFilesToAppend or in vendorTestStaticStyles.
C5_NoDuplicateInAnyBundle ==
    /\ \A f \in DOMAIN scriptOutputFiles : NoDuplicate(scriptOutputFiles[f])
    /\ \A f \in DOMAIN styleOutputFiles : NoDuplicate(styleOutputFiles[f])
    /\ NoDuplicate(legacyTestFilesToAppend)
    /\ NoDuplicate(vendorTestStaticStyles)

\* a duplicate import has just been resolved while every kind of bundle
\* holds a path
C5_Witness ==
    /\ last.outcome = "ok" /\ last.logged = 1
    /\ VendorJs \in DOMAIN scriptOutputFiles /\ Len(scriptOutputFiles[VendorJs]) = 2
    /\ OtherJs \in DOMAIN scriptOutputFiles /\ Len(scriptOutputFiles[OtherJs]) = 2
    /\ Len(legacyTestFilesToAppend) = 2
    /\ Len(styleOutputFiles[VendorCss]) = 1
    /\ Len(vendorTestStaticStyles) = 1

-----------------------------------------------------------------------------
(* Properties of the checks import makes *)

\* the bundle lists and the other-asset list of app are those of the instance
SameBundles(app) ==
    /\ app.scriptOutputFiles = scriptOutputFiles
    /\ app.styleOutputFiles = styleOutputFiles
    /\ app.legacyTestFilesToAppend = legacyTestFilesToAppend
    /\ app.vendorTestStaticStyles = vendorTestStaticStyles
    /\ app.otherAssetPaths = otherAssetPaths

\* s with its backslashes turned into slashes
Slashed(s) == [i \in 1..Len(s) |-> IF s[i] = "\\" THEN "/" ELSE s[i]]

\* C6: no extension.  In every reachable state and with every options value,
\* import of a path (a non-empty string) whose last segment has no extension
\* raises an error, and no bundle list, other-asset entry or transform gains
\* the path.
C6_NoExtensionRaises ==
    \A a \in StringAssets, o \in AssetOptions :
        (~Falsy(a.value) /\ Extname(Slashed(a.value)) = <<>>) =>
            \E r \in {import(App, a, o)} :
                /\ r.outcome = "error"
                /\ SameBundles(r.app)
                /\ r.app.customTransformsMap = customTransformsMap

\* an import of v/lib has just failed for its missing extension, on an
\* instance that holds scripts and a resolved package
C6_Witness ==
    /\ last.outcome = "error" /\ last.error.message = "no extension"
    /\ last.assetPath = NoExt
    /\ VendorJs \in DOMAIN scriptOutputFiles /\ Len(scriptOutputFiles[VendorJs]) = 2
    /\ nodeModules # <<>>

\* C7: glob characters.  In every reachable state and with every options
\* value, import of a path that holds * or , once its separators are
\* normalised raises the glob error, whatever its extension or package, and
\* leaves every field of the instance as it was.
C7_GlobRaisesFirst ==
    \A a \in StringAssets, o \in AssetOptions :
        (~Falsy(a.value) /\ \E i \in 1..Len(a.value) : a.value[i] \in {"*", ","}) =>
            \E r \in {import(App, a, o)} :
                /\ r.outcome = "error"
                /\ r.error.message = "glob pattern"
                /\ r.error.names = <<Slashed(a.value)>>
                /\ r.app = App

\* an import has just failed for a glob character, on an instance that
\* holds scripts
C7_Witness ==
    /\ last.outcome = "error" /\ last.error.message = "glob pattern"
    /\ last.error.names = <<Comma_js>>
    /\ VendorJs \in DOMAIN scriptOutputFiles /\ Len(scriptOutputFiles[VendorJs]) = 2

\* the entry of an environment map for the active environment, else its
\* development entry, else undefined
EntryFor(m) ==
    IF env \in DOMAIN m THEN m[env]
    ELSE IF "development" \in DOMAIN m THEN m["development"]
    ELSE Undefined

\* C8: environment maps.  In every reachable state, import of a map from
\* environment names to paths does what import of the map's entry for the
\* active environment does, or of its development entry when the map has no
\* entry for the active environment; when that entry is no path the call
\* returns without an error and changes no field of the instance.
C8_EnvironmentMapPicksEntry ==
    \A a \in EnvMapAssets, o \in AssetOptions :
        \E r \in {import(App, a, o)} :
            /\ r = import(App, Str(EntryFor(a.value)), o)
            /\ Falsy(EntryFor(a.value)) => (r.outcome = "skipped" /\ r.app = App)

\* in production, the production entry of a map has just been imported into
\* vendor.js
C8_Witness ==
    /\ env = "production"
    /\ last.outcome = "ok" /\ last.assetPath = B_js
    /\ VendorJs \in DOMAIN scriptOutputFiles
    /\ IndexOf(scriptOutputFiles[VendorJs], B_js) > 0

\* C9: unknown type of a script import.  In every reachable state, a script
\* import whose type is neither 'vendor' nor 'test' raises the error that
\* names the file, and adds the path to no script list.
C9_UnknownScriptTypeRaises ==
    \A a \in ScriptAssets, o \in ScriptOptions :
        o.type \notin {"vendor", "test"} =>
            \E r \in {import(App, a, o)} :
                /\ r.outcome = "error"
                /\ r.error.message = "type is neither vendor nor test"
                /\ r.error.names = <<SubSeq(a.value, 3, Len(a.value))>>
                /\ r.app.scriptOutputFiles = scriptOutputFiles
                /\ r.app.legacyTestFilesToAppend = legacyTestFilesToAppend

\* a script import of type 'tests' has just failed, on an instance that
\* holds three scripts
C9_Witness ==
    /\ last.outcome = "error" /\ last.type = "tests"
    /\ last.error.message = "type is neither vendor nor test"
    /\ VendorJs \in DOMAIN scriptOutputFiles /\ Len(scriptOutputFiles[VendorJs]) = 3

\* does the using list name a transform the registry does not hold
NamesUnknown(using) ==
    \E i \in 1..Len(using) :
        /\ "transformation" \in DOMAIN using[i]
        /\ using[i].transformation # ""
        /\ using[i].transformation \notin DOMAIN customTransformsMap

AllNamed(using) ==
    \A i \in 1..Len(using) :
        "transformation" \in DOMAIN using[i] /\ using[i].transformation # ""

\* C10: unknown transform.  In every reachable state, a script import whose
\* using list names a transform the registry does not hold raises an error
\* and adds the path to no bundle list; when every entry of the list has a
\* name, the error is the one that lists the available transform names.
C10_UnknownTransformRaises ==
    \A a \in MixedScriptAssets, o \in UsingOptions :
        ("using" \in DOMAIN o /\ o.using.isArray /\ NamesUnknown(o.using.items)) =>
            \E r \in {import(App, a, o)} :
                /\ r.outcome = "error"
                /\ SameBundles(r.app)
                /\ AllNamed(o.using.items) =>
                      /\ r.error.message = "unknown transformation"
                      /\ r.error.names[3] = DOMAIN customTransformsMap

\* an import using the unknown transform shim has just failed, on an
\* instance whose transform wrap holds a file
C10_Witness ==
    /\ last.outcome = "error" /\ last.error.message = "unknown transformation"
    /\ last.error.names[2] = "shim"
    /\ customTransformsMap["wrap"].files # <<>>
    /\ VendorJs \in DOMAIN scriptOutputFiles /\ Len(scriptOutputFiles[VendorJs]) = 2

-----------------------------------------------------------------------------
(* Properties of the transform registry *)

\* how often fileList holds x
Count(fileList, x) == Cardinality({i \in 1..Len(fileList) : fileList[i] = x})

\* every entry of the using list names a transform the registry holds, and
\* no transform is named by two entries
NamesRegisteredOnce(using) ==
    /\ AllNamed(using)
    /\ \A i \in 1..Len(using) :
          /\ using[i].transformation \in DOMAIN customTransformsMap
          /\ customTransformsMap[using[i].transformation].processOptions # "undefined"
    /\ \A i, j \in 1..Len(using) :
          using[i].transformation = using[j].transformation => i = j

\* C11: transform bookkeeping.  In every reachable state, for every script
\* import of a path p whose using list names registered transforms, each
\* once: every transform T the list names has p appended once to its files
\* (one occurrence more than before, exactly one when files did not hold p)
\* and has its options replaced by what its processOptions answers for
\* (p, entry, previous options): the options themselves for a transform
\* given as a function, and for a transform given as an object the record
\* of the calls made to it, one longer and ending with (p, entry); every
\* transform the list does not name keeps its files and options.
C11_UsingRecordsPathOnce ==
    \A a \in MixedScriptAssets, o \in UsingOptions :
        ("using" \in DOMAIN o /\ o.using.isArray /\ NamesRegisteredOnce(o.using.items)) =>
            \E r \in {import(App, a, o)} :
                /\ \A i \in 1..Len(o.using.items) :
                      \E T \in {o.using.items[i].transformation} :
                      \E before \in {customTransformsMap[T]} :
                      \E after \in {r.app.customTransformsMap[T]} :
                         /\ after.files = Append(before.files, a.value)
                         /\ Count(after.files, a.value) = Count(before.files, a.value) + 1
                         /\ after.options =
                               IF before.processOptions = "identity" THEN before.options
                               ELSE Append(before.options, <<a.value, o.using.items[i]>>)
                /\ \A n \in DOMAIN customTransformsMap :
                      (\A i \in 1..Len(o.using.items) : o.using.items[i].transformation # n)
                        => r.app.customTransformsMap[n] = customTransformsMap[n]

\* an import using wrap alone has just gone into vendor.js: wrap holds the
\* path once and has seen the entry, amd holds nothing
C11_Witness ==
    /\ last.outcome = "ok" /\ last.type = "vendor"
    /\ customTransformsMap["wrap"].files = <<last.assetPath>>
    /\ customTransformsMap["wrap"].options = <<<<last.assetPath, Entry("wrap")>>>>
    /\ customTransformsMap["amd"].files = <<>>
    /\ VendorJs \in DOMAIN scriptOutputFiles
    /\ scriptOutputFiles[VendorJs] = <<last.assetPath>>

-----------------------------------------------------------------------------
(* Properties of construction *)

\* the positions, in declaration order, of the eligible addons of the
\* project whose importTransforms returns a map with the key transformName
Declaring(transformName) ==
    {i \in 1..Len(project.declared) :
        /\ shouldIncludeAddon(project.addons, project.declared[i])
        /\ project.declared[i].importTransforms.defined
        /\ project.declared[i].importTransforms.returns.kind = "map"
        /\ transformName \in DOMAIN project.declared[i].importTransforms.returns.entries}

DeclaredNames ==
    UNION {DOMAIN project.declared[i].importTransforms.returns.entries :
              i \in 1..Len(project.declared)}

WarningsAbout(transformName) ==
    SelectSeq(warnings, LAMBDA w : w[2] = transformName)

\* C12: after construction the registry has one entry for each transform name
\* an eligible addon declares and no other entry; the entry is the one of the
\* eligible addon declared last among those declaring the name; one warning
\* is written for each registration of a name the registry already had, by
\* the addon registering it; an ineligible addon registers nothing
C12_LatestEligibleAddonRegisters ==
    constructed = "ready" =>
        /\ DOMAIN customTransformsMap = {n \in DeclaredNames : Declaring(n) # {}}
        /\ \A n \in DOMAIN customTransformsMap :
              \E latest \in {project.declared[Max(Declaring(n))]} :
              \E config \in {TransformConfig(latest, n,
                                             latest.importTransforms.returns.entries[n])} :
                 /\ customTransformsMap[n].callback = config.callback
                 /\ customTransformsMap[n].processOptions = config.processOptions
                 /\ Len(WarningsAbout(n)) = Cardinality(Declaring(n)) - 1
                 /\ \A k \in 1..Len(WarningsAbout(n)) :
                       \E i \in Declaring(n) :
                          /\ WarningsAbout(n)[k][1] = project.declared[i].name
                          /\ Cardinality({j \in Declaring(n) : j < i}) = k

\* a and b register wrap and c, which the deny-list names, declares it too
C12_Witness ==
    /\ constructed = "ready"
    /\ Declaring("wrap") = {1, 2}
    /\ project.addons.blacklist = <<"c">>
    /\ project.declared[3].importTransforms.returns.kind = "map"
    /\ customTransformsMap["wrap"].callback = <<"b", "wrap">>
    /\ customTransformsMap["wrap"].processOptions = "identity"
    /\ warnings = <<<<"b", "wrap">>>>

\* an entry of a transform map that is a function, or an object that has a
\* transform callback
WellFormed(entry) ==
    \/ entry.typeof = "function"
    \/ entry.typeof = "object" /\ ~entry.isNull /\ entry.transform

\* an eligible addon of the project defines importTransforms and it returns
\* no map, or a map with an entry that is not well formed
ContractViolated ==
    \E i \in 1..Len(project.declared) :
        /\ shouldIncludeAddon(project.addons, project.declared[i])
        /\ project.declared[i].importTransforms.defined
        /\ \/ project.declared[i].importTransforms.returns.kind # "map"
           \/ \E n \in DOMAIN project.declared[i].importTransforms.returns.entries :
                 ~WellFormed(project.declared[i].importTransforms.returns.entries[n])

\* C13: when an eligible addon's importTransforms returns no transform map,
\* or a map with an entry that is neither a function nor an object carrying
\* a transform callback, construction ends with an error, and neither import
\* nor toTree is ever run on the instance
C13_ContractViolationAborts ==
    (constructed # "new" /\ ContractViolated) =>
        /\ constructed = "failed"
        /\ thrown.message # ""
        /\ last.outcome = "none"
        /\ lastTree.calls = 0

\* the names a configured list holds
Names(list) == {list[i] : i \in 1..Len(list)}

\* the addon is enabled, no deny-list names it, and the allow-list, if one
\* is configured, names it
Eligible(addon) ==
    /\ addon.isEnabled \in {"absent", "true"}
    /\ ~(/\ project.addons.blacklist \notin {Undefined, Null}
         /\ addon.name \in Names(project.addons.blacklist))
    /\ \/ project.addons.whitelist \in {Undefined, Null}
       \/ addon.name \in Names(project.addons.whitelist)

\* C14: shouldIncludeAddon(addon) is true exactly when the addon has no
\* isEnabled or isEnabled() is true, its name is not in addons.blacklist, and
\* either no addons.whitelist is configured or its name is in it; the addons
\* the constructor keeps in this.project.addons are exactly these, in the
\* order of their declaration
C14_EligibilityIsTheConjunction ==
    /\ \A i \in 1..Len(project.declared) :
          shouldIncludeAddon(project.addons, project.declared[i])
              <=> Eligible(project.declared[i])
    /\ constructed = "ready" =>
          projectAddons = SelectSeq(project.declared, Eligible)

\* an empty allow-list and an empty deny-list: every addon is enabled and
\* none is kept
C14_Witness ==
    /\ constructed = "ready"
    /\ project.addons.whitelist = <<>>
    /\ project.addons.blacklist = <<>>
    /\ \A i \in 1..Len(project.declared) : project.declared[i].isEnabled # "false"
    /\ projectAddons = <<>>

\* the names the deny-list or the allow-list holds that no addon of the
\* project has
UnknownNames ==
    LET addonNames == {project.declared[i].name : i \in 1..Len(project.declared)}
        Unknown(list) == IF list \in {Undefined, Null} THEN {} ELSE Names(list) \ addonNames
    IN Unknown(project.addons.blacklist) \cup Unknown(project.addons.whitelist)

AddonHooks ==
    {"importTransforms", "included", "treeFor", "preprocessTree", "postprocessTree", "lintTree"}

\* C15: when addons.blacklist or addons.whitelist holds a name that no addon
\* of the project has, construction ends with the error that names this
\* addon, and no importTransforms, included, treeFor, preprocessTree,
\* postprocessTree or lintTree of any addon was called before it
C15_UnknownNameRaisedBeforeHooks ==
    (constructed # "new" /\ UnknownNames # {}) =>
        /\ constructed = "failed"
        /\ thrown.message \in {"blacklist addon not found", "whitelist addon not found"}
        /\ Len(thrown.names) = 1
        /\ thrown.names[1] \in UnknownNames
        /\ \A k \in 1..Len(hooks) : hooks[k].hook \notin AddonHooks

-----------------------------------------------------------------------------
(* Properties of the addon hooks and of the trees *)

TreeHooks == {"treeFor", "preprocessTree", "postprocessTree", "lintTree"}

\* the addons whose included hook was called, in the order of the calls
IncludedCalls ==
    LET calls == SelectSeq(hooks, LAMBDA h : h.hook = "included")
    IN [k \in 1..Len(calls) |-> calls[k].addon]

\* the eligible addons that have an included hook, in declaration order
EligibleWithIncluded ==
    LET addons == SelectSeq(project.declared, LAMBDA addon : Eligible(addon) /\ addon.included)
    IN [k \in 1..Len(addons) |-> addons[k].name]

\* C16: on a constructed instance the included hook has been called exactly
\* once for every eligible addon that has it, in declaration order, for no
\* other addon, and before every call of treeFor, preprocessTree,
\* postprocessTree and lintTree; this stays so after imports and calls of the
\* tree methods and of toTree.  Before and without a successful construction
\* no included hook has run
C16_IncludedOncePerEligibleAddon ==
    /\ constructed = "ready" => IncludedCalls = EligibleWithIncluded
    /\ constructed # "ready" => IncludedCalls = <<>>
    /\ \A j, k \in 1..Len(hooks) :
          (hooks[j].hook = "included" /\ hooks[k].hook \in TreeHooks) => j < k

\* toTree twice with an import between, for a project whose addon c is
\* disabled: tree hooks of a and b were called, included of a and b once
C16_Witness ==
    /\ constructed = "ready"
    /\ lastTree.calls = 2
    /\ lastTree.method = "toTree"
    /\ last.outcome = "ok"
    /\ project.declared[3].isEnabled = "false"
    /\ project.declared[3].included
    /\ IncludedCalls = <<"a", "b">>
    /\ Cardinality({k \in 1..Len(hooks) :
                       hooks[k].hook = "treeFor" /\ hooks[k].type = "styles"}) = 2
    /\ \E k \in 1..Len(hooks) : hooks[k].hook = "postprocessTree" /\ hooks[k].type = "all"

\* the nodes of a tree: the tree and the nodes of its inputs
RECURSIVE Nodes(_)
Nodes(tree) == {tree} \cup UNION {Nodes(tree.inputs[i]) : i \in 1..Len(tree.inputs)}

\* the names of the plugins of the type that are marked isDefaultForType
DefaultNames(type) ==
    LET defaults == SelectSeq(project.plugins[type], LAMBDA plugin : plugin.isDefaultForType)
    IN [i \in 1..Len(defaults) |-> defaults[i].name]

\* the node was made by the default plugin of the type, or by the standard
\* preprocessor when the type has no default plugin
CompiledBy(node, type, preprocessor) ==
    IF DefaultNames(type) = <<>> THEN node.op = preprocessor
    ELSE node.op = "plugin.toTree" /\ node.of = DefaultNames(type)[1]

\* C17: when an addon tree is compiled (addonTree compiles templates, then
\* js; addonTestSupportTree only js), a type with more than one plugin marked
\* isDefaultForType makes the call fail with the error that lists the names
\* of all these plugins; otherwise the tree is compiled by the one default
\* plugin of the type, or by the standard preprocessor when there is none
C17_DefaultPluginConflict ==
    (/\ lastTree.method \in {"addonTree", "addonTestSupportTree"}
     /\ project.DELAYED_TRANSPILATION) =>
        \E types \in {IF lastTree.method = "addonTree" THEN <<"template", "js">>
                      ELSE <<"js">>} :
           IF \E i \in 1..Len(types) : Len(DefaultNames(types[i])) > 1
           THEN \E i \in 1..Len(types) :
                   /\ Len(DefaultNames(types[i])) > 1
                   /\ \A j \in 1..(i - 1) : Len(DefaultNames(types[j])) <= 1
                   /\ lastTree.error.message = "multiple default plugins"
                   /\ lastTree.error.names = <<types[i]>> \o DefaultNames(types[i])
           ELSE /\ lastTree.error = NoError
                /\ \E js \in Nodes(lastTree.tree) :
                      /\ CompiledBy(js, "js", "preprocessJs")
                      /\ lastTree.method = "addonTree" =>
                            CompiledBy(js.inputs[1], "template", "preprocessTemplates")

\* addonTree with two default template plugins out of three
C17_Witness ==
    /\ lastTree.method = "addonTree"
    /\ project.DELAYED_TRANSPILATION
    /\ Len(project.plugins["template"]) = 3
    /\ lastTree.error.message = "multiple default plugins"
    /\ lastTree.error.names = <<"template", "t1", "t3">>

\* the method that fills the field
MethodOf ==
    [field \in CacheFields |->
        CASE field = "_cachedTemplateTree" -> "_templatesTree"
          [] field = "_cachedNodeModuleTrees" -> "_nodeModuleTrees"
          [] field = "_cachedAddonTree" -> "addonTree"
          [] field = "_cachedAddonTestSupportTree" -> "addonTestSupportTree"
          [] field = "_cachedAddonSrcTree" -> "addonSrcTree"
          [] field = "_cachedExternalTree" -> "getExternalTree"
          [] field = "_cachedTestAppConfigTree" -> "_testAppConfigTree"
          [] field = "_cachedStylesTree" -> "styles"]

\* the fields whose derivation raises the default-plugin error in this
\* project: the addon trees that compile the conflicting type, and the trees
\* derived from them
RaisingFields ==
    IF ~project.DELAYED_TRANSPILATION THEN {}
    ELSE IF Len(DefaultNames("js")) > 1
    THEN {"_cachedAddonTree", "_cachedAddonTestSupportTree", "_cachedAddonSrcTree",
          "_cachedExternalTree", "_cachedStylesTree"}
    ELSE IF Len(DefaultNames("template")) > 1
    THEN {"_cachedAddonTree", "_cachedAddonSrcTree", "_cachedExternalTree",
          "_cachedStylesTree"}
    ELSE {}

\* C18 as stated: the derivation of every memoized tree runs at most once on
\* an instance, whatever the sequence of calls and imports, and a call that
\* returns a tree returns the tree of the field
C18_DerivationRunsAtMostOnce ==
    \A field \in CacheFields :
        /\ derived[field] <= 1
        /\ (lastTree.method = MethodOf[field] /\ lastTree.error = NoError) =>
              cached[field] = <<lastTree.tree>>

\* a step leaves every field that holds a tree as it is, runs no derivation
\* for it, and a call of its method in the step returns the object the field
\* held before
CacheKept ==
    \A field \in CacheFields :
        cached[field] # <<>> =>
            /\ cached'[field] = cached[field]
            /\ derived'[field] = derived[field]
            /\ (lastTree'.calls # lastTree.calls /\ lastTree'.method = MethodOf[field]) =>
                  /\ lastTree'.tree = cached[field][1]
                  /\ lastTree'.error = NoError

\* C18, amended: a derivation that ends stores its tree, and from then on
\* no call, whatever imports and calls come between, runs the derivation
\* again, clears the field or returns another object than the stored one; a
\* derivation runs more than once only when it raises the default-plugin
\* error, which stores nothing
C18_DerivationCompletesAtMostOnce ==
    /\ [](\A field \in CacheFields :
             IF field \in RaisingFields THEN cached[field] = <<>>
             ELSE /\ derived[field] <= 1
                  /\ derived[field] = 1 =>
                        /\ cached[field] # <<>>
                        /\ cached[field][1].made = 1)
    /\ [][CacheKept]_vars

\* toTree twice and an import: every memoized tree was derived once
C18_Witness ==
    /\ lastTree.calls = 2
    /\ lastTree.method = "toTree"
    /\ lastTree.error = NoError
    /\ last.outcome = "ok"
    /\ Cardinality({k \in 1..Len(hooks) :
                       /\ hooks[k].hook = "postprocessTree"
                       /\ hooks[k].type = "all"
                       /\ hooks[k].addon = "b"}) = 2
    /\ \A field \in CacheFields : derived[field] = 1 /\ cached[field] # <<>>

\* the two merges of the claim: the method, the type of the addons' trees,
\* the annotation of the merge, and where the application's own tree puts
\* its files
OverwriteMerges ==
    {[method |-> "styles", type |-> "styles", note |-> "TreeMerger (stylesAndVendor)",
      dest |-> <<"app", "styles">>],
     [method |-> "getAppJavascript", type |-> "app", note |-> "TreeMerger (app)",
      dest |-> <<>>]}

\* the eligible addons that return a tree of the type, in declaration order
Contributors(type) ==
    SelectSeq(project.declared,
              LAMBDA addon : /\ Eligible(addon)
                             /\ addon.treeFor.defined
                             /\ type \in DOMAIN addon.treeFor.trees
                             /\ ~addon.treeFor.trees[type].isEmpty)

\* the files each contributor produces, then those of the application
Produced(m) ==
    [k \in 1..Len(Contributors(m.type)) |->
        [owner |-> Contributors(m.type)[k].name,
         paths |-> DOMAIN Contributors(m.type)[k].treeFor.trees[m.type].files]]
    \o <<[owner |-> "app", paths |-> {m.dest \o q : q \in DOMAIN project.files[m.type]}]>>

\* C19: the list handed to the overwriting merge of styles and of
\* getAppJavascript holds the trees of the eligible addons in declaration
\* order, and after all of them the application's own tree; so for addons A
\* declared before B that both produce a path, the merged tree never holds
\* A's version of it: it holds the version of the last tree of the list that
\* produces the path
C19_LaterAddonWins ==
    \A m \in OverwriteMerges :
        (lastTree.method = m.method /\ lastTree.error = NoError) =>
            \E merge \in {n \in Nodes(lastTree.tree) : n.op = "mergeTrees" /\ n.note = m.note} :
            \E files \in {Files(project, merge)}, produced \in {Produced(m)} :
               /\ merge.overwrite
               /\ \E addonTrees \in {SelectSeq(merge.inputs, LAMBDA t : t.op = "treeFor")} :
                     /\ Len(addonTrees) = Len(produced) - 1
                     /\ \A k \in 1..Len(addonTrees) :
                           addonTrees[k].of = produced[k].owner /\ addonTrees[k].note = m.type
               /\ \A k \in 1..Len(merge.inputs) :
                     merge.inputs[k].op = "treeFor" => k < Len(merge.inputs)
               /\ Files(project, merge.inputs[Len(merge.inputs)])
                     = [p \in produced[Len(produced)].paths |-> "app"]
               /\ \A i \in 1..Len(produced) : \A p \in produced[i].paths :
                     /\ p \in DOMAIN files
                     /\ files[p] = produced[Max({j \in 1..Len(produced) :
                                                    p \in produced[j].paths})].owner
                     /\ (\E j \in (i + 1)..Len(produced) : p \in produced[j].paths) =>
                           files[p] # produced[i].owner

\* styles for a project where a, b and c are eligible: y.css, which all three
\* produce, is c's; a.css, of a and c, is c's; x.css, of a and the
\* application, is the application's
C19_Witness ==
    /\ lastTree.method = "styles"
    /\ lastTree.error = NoError
    /\ Len(Contributors("styles")) = 3
    /\ \E merge \in {n \in Nodes(lastTree.tree) :
                        n.op = "mergeTrees" /\ n.note = "TreeMerger (stylesAndVendor)"} :
          /\ Files(project, merge)[<<"app", "styles", "y.css">>] = "c"
          /\ Files(project, merge)[<<"app", "styles", "a.css">>] = "c"
          /\ Files(project, merge)[<<"app", "styles", "x.css">>] = "app"

-----------------------------------------------------------------------------
(* Properties of the vendor stylesheet *)

\* the concat nodes of a tree that write the output file
ConcatsFor(tree, outputFile) ==
    {node \in Nodes(tree) : node.op = "concat" /\ node.note = outputFile}

\* the call last describes was an import that put a style into vendor.css
ImportedIntoVendorCss ==
    /\ last.outcome = "ok"
    /\ Extname(last.assetPath) = <<".", "c", "s", "s">>
    /\ last.type = "vendor"
    /\ last.outputFile \in {"", VendorCss}

\* C21: the style output map always has the vendor CSS output path as a key,
\* from construction on and whatever is imported; its list is empty until a
\* style is imported into it (only such an import, by a call or by the
\* constructor for the vendorFiles, changes it); and styles()
\* makes a concat for it, also when nothing was imported into it
C21_VendorCssAlwaysDeclared ==
    /\ [](/\ VendorCss \in DOMAIN styleOutputFiles
          /\ (constructed = "new" => styleOutputFiles[VendorCss] = <<>>)
          /\ (lastTree.method = "styles" /\ lastTree.error = NoError
                => ConcatsFor(lastTree.tree, VendorCss) # {}))
    /\ [][styleOutputFiles'[VendorCss] # styleOutputFiles[VendorCss]
            => (ImportedIntoVendorCss' \/ constructed = "new")]_vars

\* styles() has answered on an instance with no style imported into
\* vendor.css, after an import into another output file
C21_Witness ==
    /\ lastTree.method = "styles"
    /\ lastTree.error = NoError
    /\ styleOutputFiles[VendorCss] = <<>>
    /\ OtherCss \in DOMAIN styleOutputFiles
    /\ ConcatsFor(lastTree.tree, VendorCss) # {}
    /\ ConcatsFor(lastTree.tree, OtherCss) # {}

-----------------------------------------------------------------------------
(* Properties of routing, diagnostics and membership *)

\* container[outputFile], the empty list when the container has no such key
ListOf(container, outputFile) ==
    IF outputFile \in DOMAIN container THEN container[outputFile] ELSE <<>>

\* the output file of a vendor import: options.outputFile, else the
\* configured path
OutputFileOf(options, dflt) ==
    IF "outputFile" \in DOMAIN options /\ options.outputFile # "" THEN options.outputFile
    ELSE dflt

\* the list of the instance in which the conflict policy looks for the path,
\* empty when the call hands no list to a policy
TargetList(assetPath, options) ==
    IF IsTypeJs(assetPath)
    THEN IF options.type = "vendor"
         THEN ListOf(scriptOutputFiles, OutputFileOf(options, VendorJs))
         ELSE IF options.type = "test" THEN legacyTestFilesToAppend ELSE <<>>
    ELSE IF Extname(assetPath) = <<".", "c", "s", "s">>
    THEN IF options.type = "vendor"
         THEN ListOf(styleOutputFiles, OutputFileOf(options, VendorCss))
         ELSE vendorTestStaticStyles
    ELSE <<>>

\* the imports of the routing specification
RoutedImports ==
    (RoutedScriptAssets \X RoutedScriptOptions)
    \cup (RoutedStyleAssets \X RoutedStyleOptions)
    \cup (MixedOtherAssets \X RoutedStyleOptions)

\* C22: duplicate diagnostics.  In every reachable state, an import whose
\* path is already in the list its policy inspects returns without an error
\* and logs exactly one informational line, under first-one-wins and under
\* last-one-wins, with prepend and without; an import whose path is not in
\* that list logs none.
C22_OneDiagnosticPerDuplicate ==
    \A c \in RoutedImports :
        \E r \in {import(App, c[1], c[2])} :
            IF IndexOf(TargetList(c[1].value, c[2]), c[1].value) # 0
            THEN r.outcome = "ok" /\ r.logged = 1
            ELSE r.logged = 0

\* a prepend of a style that vendor.css holds has just been rejected with
\* one line logged, on an instance whose test script list holds a script
C22_Witness ==
    /\ last.outcome = "ok" /\ last.logged = 1
    /\ last.assetPath = A_css /\ last.type = "vendor" /\ last.prepend
    /\ last.outputFile = ""
    /\ styleOutputFiles[VendorCss] = <<A_css>>
    /\ legacyTestFilesToAppend = <<A_js>>

-----------------------------------------------------------------------------
(* Properties of the order of the constructor's steps *)

\* C23: whenever an importTransforms hook is called, the included hook of
\* every eligible addon that has one was called before it
C23_IncludedBeforeTransformDiscovery ==
    \A k \in 1..Len(hooks) :
        hooks[k].hook = "importTransforms" =>
            \A i \in 1..Len(EligibleWithIncluded) :
                \E j \in 1..(k - 1) :
                    hooks[j].hook = "included" /\ hooks[j].addon = EligibleWithIncluded[i]

\* C24: in every reachable state, an import of a .css path whose type is
\* neither 'vendor' nor 'test' raises an error and leaves every style list
\* as it was
C24_UnknownStyleTypeRaises ==
    \A a \in RoutedStyleAssets, o \in RoutedStyleOptions :
        o.type \notin {"vendor", "test"} =>
            \E r \in {import(App, a, o)} :
                /\ r.outcome = "error"
                /\ r.app.styleOutputFiles = styleOutputFiles
                /\ r.app.vendorTestStaticStyles = vendorTestStaticStyles

\* the map after is the map before but for the list of outputFile, which
\* holds the path
OnlyListChanged(after, before, outputFile, assetPath) ==
    /\ DOMAIN after = DOMAIN before \cup {outputFile}
    /\ \A f \in DOMAIN before \ {outputFile} : after[f] = before[f]
    /\ IndexOf(after[outputFile], assetPath) # 0

\* app is the instance but for the one list an import of assetPath with
\* these options is routed to by extension, type and output file
RoutedTo(app, assetPath, options) ==
    LET script == IsTypeJs(assetPath)
        style == ~script /\ Extname(assetPath) = <<".", "c", "s", "s">>
        vendor == options.type = "vendor"
    IN /\ IF script /\ vendor
          THEN OnlyListChanged(app.scriptOutputFiles, scriptOutputFiles,
                               OutputFileOf(options, VendorJs), assetPath)
          ELSE app.scriptOutputFiles = scriptOutputFiles
       /\ IF script /\ ~vendor
          THEN IndexOf(app.legacyTestFilesToAppend, assetPath) # 0
          ELSE app.legacyTestFilesToAppend = legacyTestFilesToAppend
       /\ IF style /\ vendor
          THEN OnlyListChanged(app.styleOutputFiles, styleOutputFiles,
                               OutputFileOf(options, VendorCss), assetPath)
          ELSE app.styleOutputFiles = styleOutputFiles
       /\ IF style /\ ~vendor
          THEN IndexOf(app.vendorTestStaticStyles, assetPath) # 0
          ELSE app.vendorTestStaticStyles = vendorTestStaticStyles
       /\ IF ~script /\ ~style
          THEN /\ Len(app.otherAssetPaths) = Len(otherAssetPaths) + 1
               /\ SubSeq(app.otherAssetPaths, 1, Len(otherAssetPaths)) = otherAssetPaths
               /\ app.otherAssetPaths[Len(app.otherAssetPaths)].file = Basename(assetPath)
          ELSE app.otherAssetPaths = otherAssetPaths

\* C25: routing and frame.  In every reachable state, an import with type
\* 'vendor' or 'test' succeeds and changes at most one list, which then
\* holds the path: for a script, the script list of its output file
\* (options.outputFile, else the configured vendor JS path) or the test
\* script list; for a .css path, the style list of its output file
\* (options.outputFile, else the configured vendor CSS path) or the test
\* style list; for any other extension, the other-asset list.  Every other
\* list, the lists of the other output files of the same map included, is
\* as before.
C25_RoutingAndFrame ==
    \A c \in RoutedImports :
        c[2].type \in {"vendor", "test"} =>
            \E r \in {import(App, c[1], c[2])} :
                r.outcome = "ok" /\ RoutedTo(r.app, c[1].value, c[2])

\* a script has just been imported into other.js while vendor.js and the
\* test script list hold the same path, and a style is held by vendor.css,
\* other.css and the test style list
C25_Witness ==
    /\ last.outcome = "ok" /\ last.logged = 0
    /\ last.assetPath = A_js /\ last.type = "vendor" /\ last.outputFile = OtherJs
    /\ DOMAIN scriptOutputFiles = {VendorJs, OtherJs}
    /\ scriptOutputFiles[VendorJs] = <<A_js>>
    /\ scriptOutputFiles[OtherJs] = <<A_js>>
    /\ legacyTestFilesToAppend = <<A_js>>
    /\ styleOutputFiles[VendorCss] = <<A_css>>
    /\ OtherCss \in DOMAIN styleOutputFiles /\ styleOutputFiles[OtherCss] = <<A_css>>
    /\ vendorTestStaticStyles = <<A_css>>
    /\ Len(otherAssetPaths) = 1

\* C26: failure atomicity.  In every reachable state, an import that raises
\* an error leaves every field of the instance as it was: the script and
\* style output maps, the test lists, the other-asset list, every
\* transform's files and options, and the node-modules map
C26_FailedImportChangesNothing ==
    \A a \in MixedScriptAssets, o \in UsingOptions :
        \E r \in {import(App, a, o)} :
            r.outcome = "error" => r.app = App

\* every path of the list before is in the list after, which is not shorter
Kept(before, after) == Names(before) \subseteq Names(after) /\ Len(before) <= Len(after)

\* every key of the map before is a key of the map after, with its paths
KeptIn(before, after) ==
    /\ DOMAIN before \subseteq DOMAIN after
    /\ \A f \in DOMAIN before : Kept(before[f], after[f])

\* C27: bundle membership is stable.  In every step, every path held by a
\* script or style output-file list, by the test script list or by the test
\* style list is still held by the same list afterwards, no list gets
\* shorter and no output-file key is removed: a path that a conflict policy
\* evicts is inserted again by the same import call.
C27_MembershipIsStable ==
    [][/\ KeptIn(scriptOutputFiles, scriptOutputFiles')
       /\ KeptIn(styleOutputFiles, styleOutputFiles')
       /\ Kept(legacyTestFilesToAppend, legacyTestFilesToAppend')
       /\ Kept(vendorTestStaticStyles, vendorTestStaticStyles')]_vars

\* a prepend re-import has just evicted the second script of vendor.js and
\* put it first, while the style of vendor.css was re-imported before
C27_Witness ==
    /\ last.outcome = "ok" /\ last.logged = 1
    /\ last.assetPath = B_js /\ last.type = "vendor" /\ last.prepend
    /\ last.outputFile = ""
    /\ scriptOutputFiles[VendorJs] = <<B_js, A_js>>
    /\ OtherJs \in DOMAIN scriptOutputFiles /\ Len(scriptOutputFiles[OtherJs]) = 2
    /\ styleOutputFiles[VendorCss] = <<A_css>>
    /\ vendorTestStaticStyles = <<A_css>>

\* C28: in every reachable state no transform's files holds a path twice,
\* and a script re-import with a using list that first-one-wins rejects,
\* leaving the bundle as it was, leaves the files and options of every
\* transform as they were
C28_TransformFilesDuplicateFree ==
    /\ \A T \in DOMAIN customTransformsMap : NoDuplicate(customTransformsMap[T].files)
    /\ \A a \in MixedScriptAssets, o \in UsingOptions :
          ("using" \in DOMAIN o /\ o.using.isArray /\ ~o.prepend) =>
              \E r \in {import(App, a, o)} :
                  (r.outcome = "ok" /\ r.logged = 1) =>
                      /\ r.app.scriptOutputFiles = scriptOutputFiles
                      /\ r.app.customTransformsMap = customTransformsMap

====
